---------------------------- MODULE Spec2Model ----------------------------
(***************************************************************************)
(* A model of ankyloGo's admission-control engine: the sliding-window and  *)
(* token-bucket limiters, the in-process store (MemoryStore), the shared   *)
(* store (RedisStore and its two Lua scripts), the risk engine and the     *)
(* middleware that combines them.                                          *)
(*                                                                         *)
(* Time is a global clock `now` counted in ticks; one second is            *)
(* TicksPerSec ticks, so that the code's conversions between time.Time     *)
(* (sub-second resolution) and Unix seconds (time.Time.Unix, truncating)   *)
(* are conversions in the model as well.                                   *)
(*                                                                         *)
(* Each subsystem has a specification of its own over the same variables:  *)
(*   SpecWindow  both stores' AllowedSlidingWindow, driven in lockstep     *)
(*   SpecBucket  both stores' AllowedTokenBucket, driven in lockstep       *)
(*   SpecConc    concurrent MemoryStore.AllowedSlidingWindow calls         *)
(*   SpecRisk    the risk engine's consume loop and score read-back        *)
(*   SpecGateway the middleware in front of either store                   *)
(*   SpecPolicy  the middleware with risk-aware policy composition         *)
(* SpecWindowAdjusted and SpecBucketAdjusted are SpecWindow and SpecBucket *)
(* with a caller whose limits change between calls.                        *)
(***************************************************************************)
EXTENDS Integers, Sequences, FiniteSets

\* ---------------------------------------------------------------- bounds
TicksPerSec == 2
MaxTime == 6
MaxWindow == 2
MaxLimit == 2
MaxCalls == 4
MaxFail == 1
MaxCap == 4
MaxTokensPerInterval == 2
MaxRefill == 3
MaxDecay == 2               \* largest decayRate, in ticks
MaxThreshold == 2           \* largest notification threshold
MaxEvents == 4              \* records consumed in a run
MaxRequests == 2            \* requests the middleware handles in a run
MaxScore == 4               \* largest risk score and DenyScore a request meets
MaxBase == 10               \* largest base Limit / Capacity that is scaled
MaxDenyScore == 10          \* largest DenyScore a base value is scaled under
\* EXPIRE key 600 in tokenBucketScript, in seconds
BucketTTL == 600

Keys == {"ip1"}
Windows == 1..MaxWindow
Limits == 1..MaxLimit
Capacities == 1..MaxCap
TokensPerIntervals == 0..MaxTokensPerInterval
\* refillRate is a time.Duration, here in ticks
RefillRates == 1..MaxRefill
\* How a call to the remote store ends: the script ran and its reply arrived;
\* the store was unreachable (the script never ran); the script ran but its
\* reply was lost (a timeout on the way back).
\* A zero decayRate makes the division in processEvent and GetScore panic; the
\* runs here start from a positive one.
DecayRates == 0..MaxDecay
Thresholds == 0..MaxThreshold
RedisOutcomes == {"ok", "down", "lost"}

VARIABLES
    now,        \* the clock, in ticks
    ncalls,     \* calls issued so far (bounded by MaxCalls)
    phase,      \* the driver: "idle", or which store the pending call is at
    call,       \* the pending / last call's arguments
    \* ---- sliding window
    slidingWindowPerIP,  \* MemoryStore: key -> SlidingWindowLimiter
    zsets,               \* Redis: key "sliding:"+ip -> sorted set and its TTL
    resMem, resRedis,    \* the last call's result from each store
    admMem, admRedis,    \* per key, the times of the calls each store admitted
    failedOpen,          \* per key: how many calls to the remote store failed
    \* ---- token bucket
    bucketPerIp,         \* MemoryStore: key -> TokenBucket
    hashes,              \* Redis: key "bucket:"+ip -> hash {tokens, last_refill} and its TTL
    \* ---- concurrent callers of MemoryStore.AllowedSlidingWindow
    storeImpl,           \* which MemoryStore the run uses: "LoadOrStore" or "LoadThenStore"
    policy,              \* the (window, limit) every caller passes
    limiters,            \* the heap: every SlidingWindowLimiter stored in the map so far
    windowMap,           \* the sync.Map: key -> index into limiters, 0 when absent
    worker,              \* per goroutine: where it is in AllowedSlidingWindow
    admConc,             \* per key, the times of the admitted calls
    \* ---- RiskEngine
    decayRate,           \* RiskEngine.decayRate, in ticks
    threshold,           \* RiskEngine.threshold
    ipScores,            \* RiskEngine.ipScores: ip -> RiskScore {score, lastUpdated}
    notified,            \* per ip, the scores passed to OnThreshold.Notify, in order
    nevents,             \* records consumed so far
    lastEvent,           \* the last record processed: the RiskScore it found, what it returned
    decayed,             \* per ip, whether some event saw a decay interval elapse
    riskPanic,           \* whether the process died of a runtime panic in the engine
    lastRead,            \* the last GetScore: for which ip, when, what it returned
    riskWorker,          \* per goroutine: where it is in processEvent
    \* ---- the gin middleware
    store,               \* the RateLimiterStore handed to the middleware
    config,              \* the Config handed to the middleware
    policies,            \* endpointPolicies[0]: "METHOD path" -> Config, possibly empty
    response,            \* the last request and how the middleware answered it
    \* ---- the TokenBucket refilled by a ticker goroutine
    ticker,              \* the bucket, its refillTokens goroutine and its ticker
    lastTake,            \* the last TakeTokens on it: when, and what it returned
    \* ---- the risk scaling of one base value
    scaling,             \* the base value, DenyScore, the score read and the effective value
    \* ---- the consume loop, the publisher and the refill goroutines
    reader,              \* EventReader: where the loop is, its context, its client, its batch
    producer,            \* KafkaPublisher: the client's buffer and the Publish call in hand
    refillers            \* the TokenBuckets created so far whose refillTokens goroutine runs

windowVars == <<slidingWindowPerIP, zsets, resMem, resRedis, admMem, admRedis,
                failedOpen>>
bucketVars == <<bucketPerIp, hashes>>
driverVars == <<now, ncalls, phase, call>>
concVars == <<storeImpl, policy, limiters, windowMap, worker, admConc>>
readVars == <<riskPanic, lastRead, riskWorker>>
riskVars == <<decayRate, threshold, ipScores, notified, nevents, lastEvent, decayed,
              readVars>>
gatewayVars == <<store, config, policies, response>>
tickerVars == <<ticker, lastTake>>
scaleVars == <<scaling>>
ioVars == <<reader, producer, refillers>>
vars == <<driverVars, windowVars, bucketVars, concVars, riskVars, gatewayVars, tickerVars,
          scaleVars, ioVars>>

\* ------------------------------------------------------- helper operators
Min(a, b) == IF a < b THEN a ELSE b
Max(a, b) == IF a > b THEN a ELSE b

\* time.Time.Unix(): whole seconds, truncated.
UnixSec(t) == t \div TicksPerSec
\* A number of seconds as a duration in ticks.
Seconds(s) == s * TicksPerSec

NoCall == [op |-> "none", key |-> "ip1", at |-> 0, window |-> 0, limit |-> 0,
           capacity |-> 0, tokensPerInterval |-> 0, refillRate |-> 0,
           outcome |-> "ok", prevAt |-> -1]

\* ------------------------------------------------ SlidingWindowLimiter
NoLimiter == [exists |-> FALSE, window |-> 0, limit |-> 0, logs |-> <<>>]

NewSlidingWindowLimiter(window, limit) ==
    [exists |-> TRUE, window |-> window, limit |-> limit, logs |-> <<>>]

\* edgeTime := time.Unix(now.Unix() - sw.window, 0)
EdgeTime(t, window) == Seconds(UnixSec(t) - window)

\* The eviction loop: drop from the front while the front is Before(edgeTime).
RECURSIVE RemoveOutdated(_, _)
RemoveOutdated(logs, edge) ==
    IF Len(logs) > 0 /\ Head(logs) < edge
    THEN RemoveOutdated(Tail(logs), edge)
    ELSE logs

\* Allow with the limit check off by one (admits when the count equals limit).
AllowOffByOne(sw, t) ==
    LET kept == RemoveOutdated(sw.logs, EdgeTime(t, sw.window))
    IN  IF Len(kept) <= sw.limit
        THEN [sw |-> [sw EXCEPT !.logs = Append(kept, t)], ok |-> TRUE]
        ELSE [sw |-> [sw EXCEPT !.logs = kept], ok |-> FALSE]

\* SlidingWindowLimiter.Allow at time t: the limiter afterwards and the result.
Allow(sw, t) ==
    LET kept == RemoveOutdated(sw.logs, EdgeTime(t, sw.window))
    IN  IF Len(kept) < sw.limit
        THEN [sw |-> [sw EXCEPT !.logs = Append(kept, t)], ok |-> TRUE]
        ELSE [sw |-> [sw EXCEPT !.logs = kept], ok |-> FALSE]

\* sync.Map.LoadOrStore(ip, value): the stored value wins.
LoadOrStore(m, ip, value) == IF m[ip].exists THEN m[ip] ELSE value

\* MemoryStore.AllowedSlidingWindow at time t: the map afterwards and the result.
MemorySlidingWindow(m, ip, window, limit, t) ==
    LET newWindow == NewSlidingWindowLimiter(window, limit)
        slideWindow == LoadOrStore(m, ip, newWindow)
        r == Allow(slideWindow, t)
    IN  [m |-> [m EXCEPT ![ip] = r.sw], ok |-> r.ok]

\* ------------------------------------------------ slidingWindowScript
NoZset == [members |-> <<>>, expireAt |-> 0]

\* What a client sees of a key at time t: a key past its TTL is gone.
LiveZset(z, t) == IF Len(z.members) > 0 /\ t >= z.expireAt THEN NoZset ELSE z

\* ZREMRANGEBYSCORE key 0 cutoff: both ends inclusive.
ZRemRangeByScore(members, lo, hi) ==
    SelectSeq(members, LAMBDA s : ~(lo <= s /\ s <= hi))

\* The script admitting while count <= limit.
SlidingWindowScriptOffByOne(z0, t, cutoff, limit, window) ==
    LET z == LiveZset(z0, t)
        kept == ZRemRangeByScore(z.members, 0, cutoff)
        ttl == IF Len(kept) = 0 THEN 0 ELSE z.expireAt
    IN  IF Len(kept) <= limit
        THEN [z |-> IF window <= 0
                    THEN NoZset
                    ELSE [members |-> Append(kept, t), expireAt |-> t + Seconds(window)],
              ret |-> 1]
        ELSE [z |-> [members |-> kept, expireAt |-> ttl], ret |-> 0]

\* The Lua script, run atomically by the store at time t. Members are unique
\* (a random 8-byte id each), so the sorted set is the sequence of its scores.
SlidingWindowScript(z0, t, cutoff, limit, window) ==
    LET z == LiveZset(z0, t)
        kept == ZRemRangeByScore(z.members, 0, cutoff)
        ttl == IF Len(kept) = 0 THEN 0 ELSE z.expireAt
    IN  IF Len(kept) < limit
        THEN [z |-> IF window <= 0
                    THEN NoZset      \* EXPIRE with a non-positive TTL deletes the key
                    ELSE [members |-> Append(kept, t), expireAt |-> t + Seconds(window)],
              ret |-> 1]
        ELSE [z |-> [members |-> kept, expireAt |-> ttl], ret |-> 0]

\* RedisStore.AllowedSlidingWindow failing closed.
RedisSlidingWindowFailClosed(zs, ip, window, limit, t, outcome) ==
    LET cutoff == t - Seconds(window)
        r == SlidingWindowScript(zs[ip], t, cutoff, limit, window)
    IN  [zs |-> IF outcome = "down" THEN zs ELSE [zs EXCEPT ![ip] = r.z],
         ok |-> outcome = "ok" /\ r.ret = 1]

\* RedisStore.AllowedSlidingWindow: outcome "ok" is a script that ran and
\* answered, "lost" one that ran but whose answer did not arrive, "down" one
\* that never ran. Any error returns true.
RedisSlidingWindow(zs, ip, window, limit, t, outcome) ==
    LET cutoff == t - Seconds(window)
        r == SlidingWindowScript(zs[ip], t, cutoff, limit, window)
    IN  [zs |-> IF outcome = "down" THEN zs ELSE [zs EXCEPT ![ip] = r.z],
         ok |-> IF outcome # "ok" THEN TRUE ELSE r.ret = 1]

\* ------------------------------------------------------- TokenBucket
NoBucket == [exists |-> FALSE, tokens |-> 0, capacity |-> 0,
             tokensPerInterval |-> 0, refillRate |-> 0, lastRefill |-> 0]

\* NewTokenBucket at time t: a full bucket, lastRefill = time.Now().
NewTokenBucket(capacity, tokensPerInterval, refillRate, t) ==
    [exists |-> TRUE, tokens |-> capacity, capacity |-> capacity,
     tokensPerInterval |-> tokensPerInterval, refillRate |-> refillRate,
     lastRefill |-> t]

\* The lazy refill of TakeTokens: whole intervals elapsed since lastRefill,
\* and lastRefill moves to now only when at least one interval has elapsed.
Refill(tb, t) ==
    IF tb.refillRate > 0 /\ tb.tokensPerInterval > 0
    THEN LET intervals == (t - tb.lastRefill) \div tb.refillRate
         IN  IF intervals > 0
             THEN [tb EXCEPT !.tokens = Min(tb.capacity,
                                            tb.tokens + intervals * tb.tokensPerInterval),
                             !.lastRefill = t]
             ELSE tb
    ELSE tb

\* TokenBucket.TakeTokens at time t: the bucket afterwards and the result.
TakeTokens(tb0, t) ==
    LET tb == Refill(tb0, t)
    IN  IF tb.tokens > 0
        THEN [tb |-> [tb EXCEPT !.tokens = tb.tokens - 1], ok |-> TRUE]
        ELSE [tb |-> tb, ok |-> FALSE]

\* MemoryStore.AllowedTokenBucket at time t: the map afterwards and the result.
MemoryTokenBucket(m, ip, capacity, tokensPerInterval, refillRate, t) ==
    LET newBucket == NewTokenBucket(capacity, tokensPerInterval, refillRate, t)
        bucketToken == LoadOrStore(m, ip, newBucket)
        r == TakeTokens(bucketToken, t)
    IN  [m |-> [m EXCEPT ![ip] = r.tb], ok |-> r.ok]

\* --------------------------------------------------- tokenBucketScript
\* +Inf as a token count: more than any capacity.
Infinity == MaxCap + 1

NoHash == [exists |-> FALSE, tokens |-> 0, last_refill |-> 0, expireAt |-> 0]

LiveHash(h, t) == IF h.exists /\ t >= h.expireAt THEN NoHash ELSE h

\* math.floor(time_elapsed * refill_rate), where refill_rate is
\* float64(tokensPerInterval) / refillRate.Seconds() tokens per second and
\* time_elapsed is in whole seconds. refillRate is in ticks here, so the rate
\* is tokensPerInterval * TicksPerSec / refillRate.
\* With refillRate = 0 the Go side divides by 0.0: the rate is +Inf for
\* tokensPerInterval > 0 and NaN for 0. The script then computes
\* floor(time_elapsed * rate): +Inf when time has passed (math.min caps it at
\* capacity), NaN otherwise, and NaN > 0 is false.
TokensToAdd(time_elapsed, tokensPerInterval, refillRate) ==
    IF refillRate > 0
    THEN (time_elapsed * tokensPerInterval * TicksPerSec) \div refillRate
    ELSE IF tokensPerInterval > 0 /\ time_elapsed > 0 THEN Infinity ELSE 0

\* The Lua script, run atomically by the store at time t; current_timestamp is
\* time.Now().Unix(), in whole seconds.
TokenBucketScript(h0, t, capacity, tokensPerInterval, refillRate, requested_tokens, current_timestamp) ==
    LET h == LiveHash(h0, t)
        tokens_to_add == TokensToAdd(current_timestamp - h.last_refill,
                                     tokensPerInterval, refillRate)
        refilled == IF ~h.exists
                    THEN [tokens |-> capacity, last_refill |-> current_timestamp]
                    ELSE IF tokens_to_add > 0
                         THEN [tokens |-> Min(capacity, h.tokens + tokens_to_add),
                               last_refill |-> current_timestamp]
                         ELSE [tokens |-> h.tokens, last_refill |-> h.last_refill]
        stored(n) == [exists |-> TRUE, tokens |-> n,
                      last_refill |-> refilled.last_refill,
                      expireAt |-> t + Seconds(BucketTTL)]
    IN  IF refilled.tokens >= requested_tokens
        THEN [h |-> stored(refilled.tokens - requested_tokens), ret |-> 1]
        ELSE [h |-> stored(refilled.tokens), ret |-> 0]

\* RedisStore.AllowedTokenBucket at time t, its Eval round trip ending in
\* `outcome`: the store's keys afterwards and the result. Any error from Eval
\* returns true.
RedisTokenBucket(hs, ip, capacity, tokensPerInterval, refillRate, t, outcome) ==
    LET r == TokenBucketScript(hs[ip], t, capacity, tokensPerInterval, refillRate, 1,
                               UnixSec(t))
    IN  [hs |-> IF outcome = "down" THEN hs ELSE [hs EXCEPT ![ip] = r.h],
         ok |-> IF outcome # "ok" THEN TRUE ELSE r.ret = 1]

\* ------------------------------------------------------------- driver
\* The clock advances between calls.
Tick ==
    /\ phase = "idle"
    /\ now < MaxTime
    /\ now' = now + 1
    /\ UNCHANGED <<ncalls, phase, call, windowVars, bucketVars, concVars, riskVars,
                   gatewayVars, tickerVars, scaleVars, ioVars>>

\* A caller issues admitWindow(key, window, limit): the same call goes to the
\* MemoryStore and then to the RedisStore, at the same time.
IssueWindow(k, w, l) ==
    /\ phase = "idle"
    /\ ncalls < MaxCalls
    /\ ncalls' = ncalls + 1
    /\ call' = [NoCall EXCEPT !.op = "window", !.key = k, !.at = now,
                              !.window = w, !.limit = l]
    /\ phase' = "mem"
    /\ UNCHANGED <<now, windowVars, bucketVars, concVars, riskVars, gatewayVars, tickerVars, scaleVars, ioVars>>

\* A caller with a fixed policy: every call for a key repeats the (window,
\* limit) of the key's first call.
RequestWindow(k, w, l) ==
    /\ slidingWindowPerIP[k].exists =>
          w = slidingWindowPerIP[k].window /\ l = slidingWindowPerIP[k].limit
    /\ IssueWindow(k, w, l)

\* A caller whose limit changes between calls (the risk feedback loop scales
\* the limit, never the window).
RequestWindowAdjusted(k, w, l) ==
    /\ slidingWindowPerIP[k].exists => w = slidingWindowPerIP[k].window
    /\ IssueWindow(k, w, l)

\* MemoryStore.AllowedSlidingWindow
MemoryAllowedSlidingWindow ==
    /\ phase = "mem" /\ call.op = "window"
    /\ LET r == MemorySlidingWindow(slidingWindowPerIP, call.key, call.window,
                                    call.limit, now)
       IN  /\ slidingWindowPerIP' = r.m
           /\ resMem' = r.ok
           /\ admMem' = IF r.ok
                        THEN [admMem EXCEPT ![call.key] = Append(@, now)]
                        ELSE admMem
    /\ phase' = "redis"
    /\ UNCHANGED <<now, ncalls, call, zsets, resRedis, admRedis, failedOpen, bucketVars,
                   concVars, riskVars, gatewayVars, tickerVars, scaleVars, ioVars>>

\* RedisStore.AllowedSlidingWindow; the Eval round trip ends in `outcome`.
RedisAllowedSlidingWindow(outcome) ==
    /\ phase = "redis" /\ call.op = "window"
    /\ outcome # "ok" => failedOpen[call.key] < MaxFail
    /\ LET key == call.key
           r == RedisSlidingWindow(zsets, key, call.window, call.limit, now, outcome)
       IN  /\ zsets' = r.zs
           /\ resRedis' = r.ok
           /\ admRedis' = IF r.ok
                          THEN [admRedis EXCEPT ![key] = Append(@, now)]
                          ELSE admRedis
           /\ failedOpen' = [failedOpen EXCEPT ![key] = IF outcome # "ok" THEN @ + 1 ELSE @]
    /\ call' = [call EXCEPT !.outcome = outcome]
    /\ phase' = "idle"
    /\ UNCHANGED <<now, ncalls, slidingWindowPerIP, resMem, admMem, bucketVars, concVars, riskVars,
                   gatewayVars, tickerVars, scaleVars, ioVars>>

\* A caller issues admitBucket(key, capacity, tokensPerInterval, refillRate).
IssueBucket(k, c, tpi, rr) ==
    /\ phase = "idle"
    /\ ncalls < MaxCalls
    /\ ncalls' = ncalls + 1
    /\ call' = [NoCall EXCEPT !.op = "bucket", !.key = k, !.at = now,
                              !.capacity = c, !.tokensPerInterval = tpi,
                              !.refillRate = rr,
                              !.prevAt = IF call.op = "bucket" /\ call.key = k
                                         THEN call.at ELSE -1]
    /\ phase' = "mem"
    /\ UNCHANGED <<now, windowVars, bucketVars, concVars, riskVars, gatewayVars, tickerVars, scaleVars, ioVars>>

\* A caller with a fixed policy: every call for a key repeats the arguments
\* of the key's first call.
RequestBucket(k, c, tpi, rr) ==
    /\ bucketPerIp[k].exists =>
          /\ c = bucketPerIp[k].capacity
          /\ tpi = bucketPerIp[k].tokensPerInterval
          /\ rr = bucketPerIp[k].refillRate
    /\ IssueBucket(k, c, tpi, rr)

\* A caller whose capacity changes between calls (the risk feedback loop
\* scales Capacity; TokensPerInterval and RefillRate stay as configured).
RequestBucketAdjusted(k, c, tpi, rr) ==
    /\ bucketPerIp[k].exists =>
          /\ tpi = bucketPerIp[k].tokensPerInterval
          /\ rr = bucketPerIp[k].refillRate
    /\ IssueBucket(k, c, tpi, rr)

\* A caller whose policy has tokensPerInterval = 0 or refillRate = 0.
RequestBucketDisabled(k, c, tpi, rr) ==
    /\ tpi = 0 \/ rr = 0
    /\ RequestBucket(k, c, tpi, rr)

\* MemoryStore.AllowedTokenBucket
MemoryAllowedTokenBucket ==
    /\ phase = "mem" /\ call.op = "bucket"
    /\ LET r == MemoryTokenBucket(bucketPerIp, call.key, call.capacity,
                                  call.tokensPerInterval, call.refillRate, now)
       IN  /\ bucketPerIp' = r.m
           /\ resMem' = r.ok
    /\ phase' = "redis"
    /\ UNCHANGED <<now, ncalls, call, slidingWindowPerIP, zsets, resRedis, admMem,
                   admRedis, failedOpen, hashes, concVars, riskVars, gatewayVars, tickerVars, scaleVars, ioVars>>

\* RedisStore.AllowedTokenBucket; the Eval round trip ends in `outcome`.
RedisAllowedTokenBucket(outcome) ==
    /\ phase = "redis" /\ call.op = "bucket"
    /\ outcome # "ok" => failedOpen[call.key] < MaxFail
    /\ LET key == call.key
           r == RedisTokenBucket(hashes, key, call.capacity, call.tokensPerInterval,
                                 call.refillRate, now, outcome)
       IN  /\ hashes' = r.hs
           /\ resRedis' = r.ok
           /\ failedOpen' = [failedOpen EXCEPT ![key] = IF outcome # "ok" THEN @ + 1 ELSE @]
    /\ call' = [call EXCEPT !.outcome = outcome]
    /\ phase' = "idle"
    /\ UNCHANGED <<now, ncalls, slidingWindowPerIP, zsets, resMem, admMem, admRedis,
                   bucketPerIp, concVars, riskVars, gatewayVars, tickerVars, scaleVars, ioVars>>

\* ------------------------------------- concurrent MemoryStore callers
\* Goroutines call MemoryStore.AllowedSlidingWindow(ip, window, limit)
\* concurrently. Each sync.Map operation is one atomic step, and so is Allow,
\* which runs under the limiter's own mutex. The repository holds two
\* MemoryStores: one looks the key up with LoadOrStore, the other with Load
\* followed by Store.
Workers == {"g1", "g2"}
StoreImpls == {"LoadOrStore", "LoadThenStore"}

IdleWorker == [pc |-> "idle", key |-> "ip1", obj |-> 0]

\* The clock also advances while calls are in flight.
ConcTick ==
    /\ now < MaxTime
    /\ now' = now + 1
    /\ UNCHANGED <<ncalls, phase, call, windowVars, bucketVars, concVars, riskVars,
                   gatewayVars, tickerVars, scaleVars, ioVars>>

\* A goroutine enters AllowedSlidingWindow(k, policy.window, policy.limit).
EnterAllowedSlidingWindow(g, k) ==
    /\ worker[g].pc = "idle"
    /\ ncalls < MaxCalls
    /\ ncalls' = ncalls + 1
    /\ worker' = [worker EXCEPT ![g] = [pc |-> "lookup", key |-> k, obj |-> 0]]
    /\ UNCHANGED <<now, phase, call, windowVars, bucketVars, storeImpl, policy,
                   limiters, windowMap, admConc,
                   riskVars, gatewayVars, tickerVars, scaleVars, ioVars>>

\* sw, _ := m.slidingWindowPerIP.LoadOrStore(ip, newWindow)
LoadOrStoreStep(g) ==
    /\ storeImpl = "LoadOrStore"
    /\ worker[g].pc = "lookup"
    /\ LET k == worker[g].key
       IN  IF windowMap[k] # 0
           THEN /\ worker' = [worker EXCEPT ![g].pc = "allow", ![g].obj = windowMap[k]]
                /\ UNCHANGED <<limiters, windowMap>>
           ELSE /\ limiters' = Append(limiters,
                                      NewSlidingWindowLimiter(policy.window, policy.limit))
                /\ windowMap' = [windowMap EXCEPT ![k] = Len(limiters) + 1]
                /\ worker' = [worker EXCEPT ![g].pc = "allow", ![g].obj = Len(limiters) + 1]
    /\ UNCHANGED <<driverVars, windowVars, bucketVars, storeImpl, policy, admConc,
                   riskVars, gatewayVars, tickerVars, scaleVars, ioVars>>

\* sw, okWindow := m.slidingWindowPerIP.Load(ip)
LoadStep(g) ==
    /\ storeImpl = "LoadThenStore"
    /\ worker[g].pc = "lookup"
    /\ LET k == worker[g].key
       IN  IF windowMap[k] # 0
           THEN worker' = [worker EXCEPT ![g].pc = "allow", ![g].obj = windowMap[k]]
           ELSE worker' = [worker EXCEPT ![g].pc = "store"]
    /\ UNCHANGED <<driverVars, windowVars, bucketVars, storeImpl, policy, limiters,
                   windowMap, admConc,
                   riskVars, gatewayVars, tickerVars, scaleVars, ioVars>>

\* slideWindow = NewSlidingWindowLimiter(window, limit);
\* m.slidingWindowPerIP.Store(ip, slideWindow)
StoreStep(g) ==
    /\ storeImpl = "LoadThenStore"
    /\ worker[g].pc = "store"
    /\ limiters' = Append(limiters, NewSlidingWindowLimiter(policy.window, policy.limit))
    /\ windowMap' = [windowMap EXCEPT ![worker[g].key] = Len(limiters) + 1]
    /\ worker' = [worker EXCEPT ![g].pc = "allow", ![g].obj = Len(limiters) + 1]
    /\ UNCHANGED <<driverVars, windowVars, bucketVars, storeImpl, policy, admConc,
                   riskVars, gatewayVars, tickerVars, scaleVars, ioVars>>

\* return slideWindow.Allow()
AllowStep(g) ==
    /\ worker[g].pc = "allow"
    /\ LET r == Allow(limiters[worker[g].obj], now)
       IN  /\ limiters' = [limiters EXCEPT ![worker[g].obj] = r.sw]
           /\ admConc' = IF r.ok
                         THEN [admConc EXCEPT ![worker[g].key] = Append(@, now)]
                         ELSE admConc
    /\ worker' = [worker EXCEPT ![g] = IdleWorker]
    /\ UNCHANGED <<driverVars, windowVars, bucketVars, storeImpl, policy, windowMap,
                   riskVars, gatewayVars, tickerVars, scaleVars, ioVars>>

\* ------------------------------ MemoryStore callers on different keys
\* Goroutines call AllowedSlidingWindow and AllowedTokenBucket of the
\* MemoryStore that uses LoadOrStore, on two keys. Allow and TakeTokens take
\* the mutex of the object they are called on, hold it for their body and
\* release it on return.
IdleCaller == [pc |-> "idle", key |-> "ip1", op |-> "window"]
Ops == {"window", "bucket"}

\* A goroutine enters AllowedSlidingWindow(k, policy.window, policy.limit) or
\* AllowedTokenBucket(k, policy.limit, 1, policy.window seconds).
EnterStore(g, k, op) ==
    /\ worker[g].pc = "idle"
    /\ ncalls < MaxCalls
    /\ ncalls' = ncalls + 1
    /\ worker' = [worker EXCEPT ![g] = [pc |-> "lookup", key |-> k, op |-> op]]
    /\ UNCHANGED <<now, phase, call, windowVars, bucketVars, storeImpl, policy,
                   limiters, windowMap, admConc,
                   riskVars, gatewayVars, tickerVars, scaleVars, ioVars>>

\* The map with ip's entry after LoadOrStore(ip, value).
StoredUnder(m, ip, value) == [m EXCEPT ![ip] = LoadOrStore(m, ip, value)]

\* newWindow := NewSlidingWindowLimiter(window, limit); LoadOrStore(ip, newWindow)
\* newBucket := NewTokenBucket(capacity, tokensPerInterval, refillRate); LoadOrStore(ip, newBucket)
LookupStore(g) ==
    /\ worker[g].pc = "lookup"
    /\ IF worker[g].op = "window"
       THEN /\ slidingWindowPerIP' =
                  StoredUnder(slidingWindowPerIP, worker[g].key,
                              NewSlidingWindowLimiter(policy.window, policy.limit))
            /\ UNCHANGED bucketPerIp
       ELSE /\ bucketPerIp' =
                  StoredUnder(bucketPerIp, worker[g].key,
                              NewTokenBucket(policy.limit, 1, Seconds(policy.window), now))
            /\ UNCHANGED slidingWindowPerIP
    /\ worker' = [worker EXCEPT ![g].pc = "lock"]
    /\ UNCHANGED <<driverVars, zsets, resMem, resRedis, admMem, admRedis, failedOpen, hashes,
                   storeImpl, policy, limiters, windowMap, admConc,
                   riskVars, gatewayVars, tickerVars, scaleVars, ioVars>>

\* One mutex for the whole store.
StoreMutexFree(g) == \A h \in Workers \ {g} : worker[h].pc # "held"

\* The mutex of the object g looked up is held by no other goroutine.
MutexFree(g) ==
    \A h \in Workers \ {g} :
        worker[h].pc = "held" => (worker[h].key # worker[g].key \/ worker[h].op # worker[g].op)

\* sw.mutex.Lock() / tb.mu.Lock()
LockStore(g) ==
    /\ worker[g].pc = "lock"
    /\ MutexFree(g)
    /\ worker' = [worker EXCEPT ![g].pc = "held"]
    /\ UNCHANGED <<driverVars, windowVars, bucketVars, storeImpl, policy,
                   limiters, windowMap, admConc,
                   riskVars, gatewayVars, tickerVars, scaleVars, ioVars>>

\* Allow writing its log to the limiter of every key.
AllowShared(m, ip, t) ==
    LET r == Allow(m[ip], t)
    IN  [m |-> [k \in DOMAIN m |-> IF k = ip \/ m[k].exists THEN r.sw ELSE m[k]], ok |-> r.ok]

\* slideWindow.Allow() on the limiter stored under ip.
AllowStored(m, ip, t) ==
    LET r == Allow(m[ip], t)
    IN  [m |-> [m EXCEPT ![ip] = r.sw], ok |-> r.ok]

\* bucketToken.TakeTokens() on the bucket stored under ip.
TakeStored(m, ip, t) ==
    LET r == TakeTokens(m[ip], t)
    IN  [m |-> [m EXCEPT ![ip] = r.tb], ok |-> r.ok]

\* The body of Allow or TakeTokens, and the deferred Unlock.
BodyStore(g) ==
    /\ worker[g].pc = "held"
    /\ IF worker[g].op = "window"
       THEN LET r == AllowStored(slidingWindowPerIP, worker[g].key, now)
            IN  /\ slidingWindowPerIP' = r.m
                /\ resMem' = r.ok
                /\ UNCHANGED bucketPerIp
       ELSE LET r == TakeStored(bucketPerIp, worker[g].key, now)
            IN  /\ bucketPerIp' = r.m
                /\ resMem' = r.ok
                /\ UNCHANGED slidingWindowPerIP
    /\ worker' = [worker EXCEPT ![g] = IdleCaller]
    /\ UNCHANGED <<driverVars, zsets, resRedis, admMem, admRedis, failedOpen, hashes,
                   storeImpl, policy, limiters, windowMap, admConc,
                   riskVars, gatewayVars, tickerVars, scaleVars, ioVars>>

\* ------------------------------------------------------- RiskEngine
NoRiskScore == [exists |-> FALSE, score |-> 0, lastUpdated |-> 0]
\* RateLimitEvent.Action: the values the field's comment lists.
Actions == {"ALLOWED", "DENIED_WINDOW", "DENIED_BUCKET", "DENIED_RISK"}
NoEvent == [valid |-> FALSE, ip |-> "ip1", action |-> "DENIED_WINDOW", at |-> 0,
            found |-> NoRiskScore, ret |-> 0]

\* &RiskScore{lastUpdated: time.Now()}
NewRiskScore(score, lastUpdated) ==
    [exists |-> TRUE, score |-> score, lastUpdated |-> lastUpdated]

NoRead == [valid |-> FALSE, ip |-> "ip1", at |-> 0, ret |-> 0]

\* elapsed / r.decayRate on time.Duration, an int64: a zero divisor is a
\* runtime panic (integer divide by zero).
DivideByZero == decayRate = 0

\* r.ipScores.LoadOrStore(event.IP, &RiskScore{lastUpdated: time.Now()})
\* Store in place of LoadOrStore: the new record replaces the one in the map.
StoreScore(scores, ip, t) == [scores EXCEPT ![ip] = NewRiskScore(0, t)]

LoadOrStoreScore(scores, ip, t) ==
    IF scores[ip].exists THEN scores ELSE [scores EXCEPT ![ip] = NewRiskScore(0, t)]

\* GetScore without the floor at zero.
GetScoreNoFloor(scores, ip, t) ==
    IF ~scores[ip].exists THEN 0
    ELSE scores[ip].score - ((t - scores[ip].lastUpdated) \div decayRate)

\* GetScore that returns the stored score, whatever time has passed.
GetScoreNoDecay(scores, ip, t) ==
    IF ~scores[ip].exists THEN 0 ELSE scores[ip].score

\* RiskEngine.GetScore: the decayed score, stored state untouched.
GetScore(scores, ip, t) ==
    IF ~scores[ip].exists THEN 0
    ELSE Max(0, scores[ip].score - ((t - scores[ip].lastUpdated) \div decayRate))

\* processEvent that moves lastUpdated only when it deducts an interval.
processEventKeepStamp(scores, ip, t) ==
    LET riskScore == IF scores[ip].exists THEN scores[ip] ELSE NewRiskScore(0, t)
        intervals == (t - riskScore.lastUpdated) \div decayRate
        decayedTo == IF riskScore.score - intervals < 0 THEN 0
                     ELSE riskScore.score - intervals
        next      == decayedTo + 1
        stamp     == IF intervals = 0 THEN riskScore.lastUpdated ELSE t
    IN  [scores |-> [scores EXCEPT ![ip] = NewRiskScore(next, stamp)], ret |-> next]

\* processEvent without the floor at zero.
processEventNoFloor(scores, ip, t) ==
    LET riskScore == IF scores[ip].exists THEN scores[ip] ELSE NewRiskScore(0, t)
        intervals == (t - riskScore.lastUpdated) \div decayRate
        next      == (riskScore.score - intervals) + 1
    IN  [scores |-> [scores EXCEPT ![ip] = NewRiskScore(next, t)], ret |-> next]

\* processEvent writing the new score to every record.
processEventShared(scores, ip, t) ==
    LET riskScore == IF scores[ip].exists THEN scores[ip] ELSE NewRiskScore(0, t)
        intervals == (t - riskScore.lastUpdated) \div decayRate
        decayedTo == IF riskScore.score - intervals < 0 THEN 0
                     ELSE riskScore.score - intervals
        next      == decayedTo + 1
    IN  [scores |-> [a \in DOMAIN scores |->
                        IF a = ip \/ scores[a].exists THEN NewRiskScore(next, t)
                        ELSE scores[a]],
         ret |-> next]

\* RiskEngine.processEvent
processEvent(scores, ip, t) ==
    LET riskScore == IF scores[ip].exists THEN scores[ip] ELSE NewRiskScore(0, t)
        intervals == (t - riskScore.lastUpdated) \div decayRate
        decayedTo == IF riskScore.score - intervals < 0 THEN 0
                     ELSE riskScore.score - intervals
        next      == decayedTo + 1
    IN  [scores |-> [scores EXCEPT ![ip] = NewRiskScore(next, t)], ret |-> next]

RiskTick ==
    /\ ~riskPanic
    /\ now < MaxTime
    /\ now' = now + 1
    /\ UNCHANGED <<ncalls, phase, call, windowVars, bucketVars, concVars,
                   decayRate, threshold, ipScores, notified, nevents, lastEvent, decayed,
                   readVars, gatewayVars, tickerVars, scaleVars, ioVars>>

\* EventReader scoring the denials by the limiters only: an event whose
\* Action is ALLOWED or DENIED_RISK is recorded and not scored.
ScoreLimiterDenialsOnly(ip, action, t) ==
    LET r == processEvent(ipScores, ip, t)
        scored == action \in {"DENIED_WINDOW", "DENIED_BUCKET"}
    IN  /\ ipScores' = IF scored THEN r.scores ELSE ipScores
        /\ notified' = IF scored /\ r.ret > threshold
                       THEN [notified EXCEPT ![ip] = Append(@, r.ret)]
                       ELSE notified
        /\ lastEvent' = [valid |-> TRUE, ip |-> ip, action |-> action, at |-> t,
                         found |-> ipScores[ip],
                         ret |-> IF scored THEN r.ret ELSE ipScores[ip].score]
        /\ UNCHANGED <<riskPanic, decayed>>

\* What follows processEvent's LoadOrStore for ip, at time t: the division
\* panics with the record's mutex held, or the score is updated under the
\* mutex and the caller, EventReader, calls the observer when the returned
\* score is above the threshold.
ScoreUnderLock(ip, action, t) ==
    IF DivideByZero
    THEN /\ riskPanic' = TRUE
         /\ lastEvent' = [NoEvent EXCEPT !.ip = ip, !.action = action, !.at = t]
         /\ UNCHANGED <<notified, decayed>>
    ELSE LET r == processEvent(ipScores, ip, t)
         IN  /\ ipScores' = r.scores
             /\ notified' = IF r.ret > threshold
                            THEN [notified EXCEPT ![ip] = Append(@, r.ret)]
                            ELSE notified
             /\ lastEvent' = [valid |-> TRUE, ip |-> ip, action |-> action, at |-> t,
                              found |-> ipScores[ip], ret |-> r.ret]
             /\ decayed' = [decayed EXCEPT ![ip] =
                               @ \/ (ipScores[ip].exists
                                     /\ (t - ipScores[ip].lastUpdated) \div decayRate > 0)]
             /\ UNCHANGED riskPanic

\* EventReader, one record that unmarshals: processEvent, then the observer
\* is called when the returned score is above the threshold.
\* The event's Action is unmarshalled and never read.
EventRecordWith(ip, action) ==
    /\ ~riskPanic
    /\ nevents < MaxEvents
    /\ nevents' = nevents + 1
    /\ ScoreUnderLock(ip, action, now)
    /\ DivideByZero => ipScores' = LoadOrStoreScore(ipScores, ip, now)
    /\ UNCHANGED <<driverVars, windowVars, bucketVars, concVars, decayRate, threshold,
                   lastRead, riskWorker, gatewayVars, tickerVars, scaleVars, ioVars>>

\* A record whose event reports a denial by the sliding window.
EventRecord(ip) == EventRecordWith(ip, "DENIED_WINDOW")

\* EventReader, one record whose value does not unmarshal: the callback returns.
MalformedRecord ==
    /\ ~riskPanic
    /\ nevents < MaxEvents
    /\ nevents' = nevents + 1
    /\ UNCHANGED <<driverVars, windowVars, bucketVars, concVars,
                   decayRate, threshold, ipScores, notified, lastEvent, decayed,
                   readVars, gatewayVars, tickerVars, scaleVars, ioVars>>

\* RiskEngine.GetScore(ip), called by a policy consumer: an unknown ip
\* returns 0 before any division.
ReadScore(ip) ==
    /\ ~riskPanic
    /\ IF ipScores[ip].exists /\ DivideByZero
       THEN /\ riskPanic' = TRUE
            /\ UNCHANGED lastRead
       ELSE /\ lastRead' = [valid |-> TRUE, ip |-> ip, at |-> now,
                            ret |-> GetScore(ipScores, ip, now)]
            /\ UNCHANGED riskPanic
    /\ UNCHANGED <<driverVars, windowVars, bucketVars, concVars,
                   decayRate, threshold, ipScores, notified, nevents, lastEvent, decayed,
                   riskWorker, gatewayVars, tickerVars, scaleVars, ioVars>>

\* --------------------------------------------- EventReader, the loop
\* The records of a poll: a value that does not unmarshal, or an event.
MaxBatch == 2
Malformed == [kind |-> "malformed", ip |-> "ip1"]
Records == {Malformed} \cup {[kind |-> "event", ip |-> ip] : ip \in Keys}
Batches == UNION {[1..n -> Records] : n \in 1..MaxBatch}
NoFetch == [records |-> <<>>, size |-> 0, errs |-> FALSE, clientClosed |-> FALSE]
NewReader == [pc |-> "poll", cancelled |-> FALSE, closed |-> FALSE, fetch |-> NoFetch]

\* The caller cancels ctx.
CancelContext ==
    /\ reader.pc # "returned" /\ ~reader.cancelled
    /\ reader' = [reader EXCEPT !.cancelled = TRUE]
    /\ UNCHANGED <<driverVars, windowVars, bucketVars, concVars, riskVars, gatewayVars,
                   tickerVars, scaleVars, producer, refillers>>

\* The caller closes the kgo client.
CloseClient ==
    /\ reader.pc # "returned" /\ ~reader.closed
    /\ reader' = [reader EXCEPT !.closed = TRUE]
    /\ UNCHANGED <<driverVars, windowVars, bucketVars, concVars, riskVars, gatewayVars,
                   tickerVars, scaleVars, producer, refillers>>

\* fetches := r.client.PollFetches(ctx) returns records, some partitions
\* possibly with an error; records buffered before a cancellation are still
\* returned.
PollRecords(batch, errs) ==
    /\ ~riskPanic
    /\ reader.pc = "poll" /\ ~reader.closed
    /\ nevents + Len(batch) <= MaxEvents
    /\ reader' = [reader EXCEPT !.pc = "polled",
                                !.fetch = [records |-> batch, size |-> Len(batch),
                                           errs |-> errs, clientClosed |-> FALSE]]
    /\ UNCHANGED <<driverVars, windowVars, bucketVars, concVars, riskVars, gatewayVars,
                   tickerVars, scaleVars, producer, refillers>>

\* PollFetches returns a fetch that holds only an error: ctx.Err() once the
\* context is cancelled, the client-closed error once the client is closed.
PollError ==
    /\ ~riskPanic
    /\ reader.pc = "poll" /\ (reader.cancelled \/ reader.closed)
    /\ reader' = [reader EXCEPT !.pc = "polled",
                                !.fetch = [records |-> <<>>, size |-> 0, errs |-> TRUE,
                                           clientClosed |-> reader.closed]]
    /\ UNCHANGED <<driverVars, windowVars, bucketVars, concVars, riskVars, gatewayVars,
                   tickerVars, scaleVars, producer, refillers>>

\* The loop going on to the records whatever ctx.Err() says.
AfterPollNoCancel(cancelled, errs) == IF errs THEN "poll" ELSE "records"

\* if ctx.Err() != nil { return }; if len(fetches.Errors()) > 0 { continue }
AfterPoll(cancelled, errs) ==
    IF cancelled THEN "returned" ELSE IF errs THEN "poll" ELSE "records"

CheckFetch ==
    /\ reader.pc = "polled"
    /\ reader' = [reader EXCEPT !.pc = AfterPoll(reader.cancelled, reader.fetch.errs)]
    /\ UNCHANGED <<driverVars, windowVars, bucketVars, concVars, riskVars, gatewayVars,
                   tickerVars, scaleVars, producer, refillers>>

\* The callback returning from the whole batch on an unmarshal error.
AfterMalformedDropBatch(records) == <<>>

\* if err != nil { return }: the callback returns, EachRecord goes on.
AfterMalformed(records) == Tail(records)

\* fetches.EachRecord(func(record)): the callback on the next record.
EachRecord ==
    /\ ~riskPanic
    /\ reader.pc = "records" /\ reader.fetch.records # <<>>
    /\ nevents' = nevents + 1
    /\ LET record == Head(reader.fetch.records)
       IN  IF record.kind = "malformed"
           THEN /\ reader' = [reader EXCEPT !.fetch.records = AfterMalformed(@)]
                /\ UNCHANGED <<ipScores, notified, lastEvent, decayed, riskPanic>>
           ELSE /\ reader' = [reader EXCEPT !.fetch.records = Tail(@)]
                /\ ScoreUnderLock(record.ip, "DENIED_WINDOW", now)
                /\ DivideByZero => ipScores' = LoadOrStoreScore(ipScores, record.ip, now)
    /\ UNCHANGED <<driverVars, windowVars, bucketVars, concVars, decayRate, threshold,
                   lastRead, riskWorker, gatewayVars, tickerVars, scaleVars,
                   producer, refillers>>

\* if fetches.IsClientClosed() { return }, else the next iteration.
AfterRecords ==
    /\ reader.pc = "records" /\ reader.fetch.records = <<>>
    /\ reader' = [reader EXCEPT !.pc = IF reader.fetch.clientClosed THEN "returned" ELSE "poll"]
    /\ UNCHANGED <<driverVars, windowVars, bucketVars, concVars, riskVars, gatewayVars,
                   tickerVars, scaleVars, producer, refillers>>

\* A step of the loop itself.
ReaderStep ==
    \/ \E batch \in Batches, errs \in BOOLEAN : PollRecords(batch, errs)
    \/ PollError
    \/ CheckFetch
    \/ EachRecord
    \/ AfterRecords

\* The clock while the loop runs.
ReaderTick ==
    /\ now < MaxTime
    /\ now' = now + 1
    /\ UNCHANGED <<ncalls, phase, call, windowVars, bucketVars, concVars,
                   decayRate, threshold, ipScores, notified, nevents, lastEvent, decayed,
                   readVars, gatewayVars, tickerVars, scaleVars, ioVars>>

\* ----------------------------------------------- KafkaPublisher
\* The kgo client buffers at most MaxBuffered records that the broker has not
\* acknowledged; Produce blocks while the buffer is full (TryProduce is the
\* call that fails instead). Publish passes context.Background().
MaxBuffered == 2
Events == [ip : Keys, action : Actions, marshals : BOOLEAN]
NewPublisher == [pc |-> "idle", event |-> CHOOSE e \in Events : TRUE,
                 buffered |-> 0, acked |-> 0, dropped |-> 0]

\* Publish(event) as far as json.Marshal: on an error it returns.
Publish(event) ==
    /\ producer.pc = "idle"
    /\ ncalls < MaxCalls
    /\ ncalls' = ncalls + 1
    /\ producer' = IF event.marshals
                   THEN [producer EXCEPT !.pc = "produce", !.event = event]
                   ELSE [producer EXCEPT !.event = event, !.dropped = @ + 1]
    /\ UNCHANGED <<now, phase, call, windowVars, bucketVars, concVars, riskVars, gatewayVars,
                   tickerVars, scaleVars, reader, refillers>>

\* k.client.Produce(ctx, record, promise) can take the record.
ProduceHasRoom(buffered) == buffered < MaxBuffered

\* k.client.Produce(ctx, record, promise) buffers the record and returns.
Produce ==
    /\ producer.pc = "produce"
    /\ ProduceHasRoom(producer.buffered)
    /\ producer' = [producer EXCEPT !.pc = "idle", !.buffered = @ + 1]
    /\ UNCHANGED <<driverVars, windowVars, bucketVars, concVars, riskVars, gatewayVars,
                   tickerVars, scaleVars, reader, refillers>>

\* The broker acknowledges a buffered record; the promise runs.
BrokerAck ==
    /\ producer.buffered > 0
    /\ producer' = [producer EXCEPT !.buffered = @ - 1, !.acked = @ + 1]
    /\ UNCHANGED <<driverVars, windowVars, bucketVars, concVars, riskVars, gatewayVars,
                   tickerVars, scaleVars, reader, refillers>>

\* ------------------------------------ concurrent callers of processEvent
Actors == {"ip1", "ip2"}
IdleRiskWorker == [pc |-> "idle", ip |-> "ip1"]

\* processEvent, as far as LoadOrStore: the goroutine holds the ip's record.
ProcessLoadOrStore(g, ip) ==
    /\ ~riskPanic
    /\ riskWorker[g].pc = "idle"
    /\ nevents < MaxEvents
    /\ nevents' = nevents + 1
    /\ ipScores' = LoadOrStoreScore(ipScores, ip, now)
    /\ riskWorker' = [riskWorker EXCEPT ![g] = [pc |-> "loaded", ip |-> ip]]
    /\ UNCHANGED <<driverVars, windowVars, bucketVars, concVars, decayRate, threshold,
                   notified, lastEvent, decayed, riskPanic, lastRead,
                   gatewayVars, tickerVars, scaleVars, ioVars>>

\* processEvent from riskScore.mu.Lock() to its return, and the caller's
\* threshold check.
ProcessUnderLock(g) ==
    /\ ~riskPanic
    /\ riskWorker[g].pc = "loaded"
    /\ ScoreUnderLock(riskWorker[g].ip, "DENIED_WINDOW", now)
    /\ DivideByZero => UNCHANGED ipScores
    /\ riskWorker' = [riskWorker EXCEPT ![g] = IdleRiskWorker]
    /\ UNCHANGED <<driverVars, windowVars, bucketVars, concVars, decayRate, threshold,
                   nevents, lastRead, gatewayVars, tickerVars, scaleVars, ioVars>>


\* ------------------------------------------------------- middleware
Endpoints == {"GET /search", "POST /login"}
Stores == {"memory", "redis"}

NoConfig == [Window |-> 0, Limit |-> 0, Capacity |-> 0, TokensPerInterval |-> 0,
             RefillRate |-> TicksPerSec, ScoreReader |-> FALSE, DenyScore |-> 0]

\* Config{}: every field zero.
ZeroConfig == [NoConfig EXCEPT !.RefillRate = 0]

\* The Configs the runs hand to the middleware: a one second window and a
\* one token per second refill, with every small Limit and Capacity, zero
\* included, and the all-zero Config.
Configs ==
    { [NoConfig EXCEPT !.Window = 1, !.Limit = l, !.Capacity = c,
                       !.TokensPerInterval = 1] :
        l \in {0, 1, 2}, c \in {0, 1, 2} }
    \cup {ZeroConfig}

\* The one endpoint policy the runs use, stricter than every base Config.
LoginPolicy == [NoConfig EXCEPT !.Window = 1, !.Limit = 1, !.Capacity = 1]
PolicySets == { [e \in {} |-> NoConfig], [e \in {"POST /login"} |-> LoginPolicy] }

NoResponse == [status |-> 0, ip |-> "ip1", endpoint |-> "GET /search", at |-> 0,
               score |-> 0, base |-> NoConfig, limit |-> 0, capacity |-> 0,
               window |-> "none", bucket |-> "none",
               windowOutcome |-> "ok", bucketOutcome |-> "ok"]

\* A merge of the two: the policy's non-zero fields over the base Config.
MergedConfig(endpoint) ==
    IF endpoint \in DOMAIN policies
    THEN [f \in DOMAIN config |->
            IF f # "ScoreReader" /\ policies[endpoint][f] = 0 THEN config[f]
            ELSE policies[endpoint][f]]
    ELSE config

\* activeConfig: the endpoint's policy when it has one, the base Config otherwise.
ActiveConfig(endpoint) ==
    IF endpoint \in DOMAIN policies THEN policies[endpoint] ELSE config

Verdict(ok) == IF ok THEN "admitted" ELSE "denied"

\* The answer when one admitting algorithm is enough.
StatusOfEither(allowedWindow, allowedBucket) ==
    IF allowedWindow \/ allowedBucket THEN 200 ELSE 429

\* AbortWithStatusJSON(429) after either denial, c.Next() otherwise.
StatusOf(allowedWindow, allowedBucket) ==
    IF allowedWindow /\ allowedBucket THEN 200 ELSE 429

\* The token bucket consulted whatever the sliding window answered.
AlwaysReachesBucket(allowedWindow) == TRUE

\* if !allowedWindow { c.AbortWithStatusJSON(...); return }: the handler
\* goes on to store.AllowedTokenBucket only after the window admitted.
ReachesBucket(allowedWindow) == allowedWindow

GatewayTick ==
    /\ now < MaxTime
    /\ now' = now + 1
    /\ UNCHANGED <<ncalls, phase, call, windowVars, bucketVars, concVars, riskVars,
                   gatewayVars, tickerVars, scaleVars, ioVars>>

\* The handler RateLimiterMiddleware returns, for one request of ip to
\* endpoint. o1 and o2 are what happens to the two Redis calls.
RateLimiterMiddleware(ip, endpoint, o1, o2) ==
    /\ ncalls < MaxRequests
    /\ ncalls' = ncalls + 1
    /\ store = "memory" => (o1 = "ok" /\ o2 = "ok")
    /\ (o1 # "ok" \/ o2 # "ok") => failedOpen[ip] < MaxFail
    /\ LET activeConfig == ActiveConfig(endpoint)
           mw == MemorySlidingWindow(slidingWindowPerIP, ip, activeConfig.Window,
                                     activeConfig.Limit, now)
           rw == RedisSlidingWindow(zsets, ip, activeConfig.Window,
                                    activeConfig.Limit, now, o1)
           allowedWindow == IF store = "memory" THEN mw.ok ELSE rw.ok
           mb == MemoryTokenBucket(bucketPerIp, ip, activeConfig.Capacity,
                                   activeConfig.TokensPerInterval,
                                   activeConfig.RefillRate, now)
           rb == RedisTokenBucket(hashes, ip, activeConfig.Capacity,
                                  activeConfig.TokensPerInterval,
                                  activeConfig.RefillRate, now, o2)
           allowedBucket == IF store = "memory" THEN mb.ok ELSE rb.ok
       IN  /\ ~allowedWindow => o2 = "ok"
           /\ slidingWindowPerIP' = IF store = "memory" THEN mw.m ELSE slidingWindowPerIP
           /\ zsets' = IF store = "redis" THEN rw.zs ELSE zsets
           /\ bucketPerIp' = IF store = "memory" /\ ReachesBucket(allowedWindow)
                             THEN mb.m ELSE bucketPerIp
           /\ hashes' = IF store = "redis" /\ ReachesBucket(allowedWindow)
                        THEN rb.hs ELSE hashes
           /\ response' = [NoResponse EXCEPT
                  !.status = StatusOf(allowedWindow, allowedBucket),
                  !.ip = ip, !.endpoint = endpoint, !.at = now,
                  !.base = activeConfig,
                  !.limit = activeConfig.Limit, !.capacity = activeConfig.Capacity,
                  !.window = Verdict(allowedWindow),
                  !.bucket = IF allowedWindow THEN Verdict(allowedBucket) ELSE "none",
                  !.windowOutcome = o1, !.bucketOutcome = o2]
    /\ failedOpen' = IF o1 # "ok" \/ o2 # "ok"
                     THEN [failedOpen EXCEPT ![ip] = @ + 1] ELSE failedOpen
    /\ UNCHANGED <<now, phase, call, resMem, resRedis, admMem, admRedis, concVars,
                   riskVars, store, config, policies, tickerVars, scaleVars, ioVars>>

\* ------------------------------------------- risk-aware middleware
\* The middleware with a ScoreReader and a DenyScore in its Config: the
\* policy composition ahead of the two admission checks.
Scores == 0..MaxScore

\* Every base Config with risk feedback on (DenyScore MaxScore), with a
\* ScoreReader but no DenyScore, and with a DenyScore but no ScoreReader.
RiskConfigs ==
    { [c EXCEPT !.ScoreReader = TRUE, !.DenyScore = MaxScore] : c \in Configs }
    \cup { [c EXCEPT !.ScoreReader = TRUE] : c \in Configs }
    \cup { [c EXCEPT !.DenyScore = MaxScore] : c \in Configs }

\* A risk score is present and a deny-threshold is configured.
RiskActive(cfg) == cfg.ScoreReader /\ cfg.DenyScore > 0

\* The risk denial taken only above DenyScore.
RiskDeniedAbove(cfg, score) == RiskActive(cfg) /\ score > cfg.DenyScore

\* score >= denyScore: reject immediately.
RiskDenied(cfg, score) == RiskActive(cfg) /\ score >= cfg.DenyScore

\* The scaling without the floor of 1.
ScaledNoFloor(base, score, denyScore) ==
    IF base = 0 THEN 0
    ELSE IF 10 * (denyScore - score) >= denyScore
         THEN (base * (denyScore - score)) \div denyScore
         ELSE base \div 10

\* The scaling applied to a zero base as well.
ScaledFromZero(base, score, denyScore) ==
    LET byFactor == IF 10 * (denyScore - score) >= denyScore
                    THEN (base * (denyScore - score)) \div denyScore
                    ELSE base \div 10
    IN  Max(1, byFactor)

\* base scaled by factor = max(0.1, 1 - score/denyScore) with a floor of 1,
\* only for a nonzero base.
Scaled(base, score, denyScore) ==
    IF base = 0 THEN 0
    ELSE LET byFactor == IF 10 * (denyScore - score) >= denyScore
                         THEN (base * (denyScore - score)) \div denyScore
                         ELSE base \div 10
         IN  Max(1, byFactor)

\* The handler's work for one request of ip to endpoint while the
\* ScoreReader reports score: the stores it asks and the response it writes.
RiskAwareHandler(ip, endpoint, score) ==
    /\ ncalls' = ncalls + 1
    /\ LET activeConfig == ActiveConfig(endpoint)
           seen     == IF activeConfig.ScoreReader THEN score ELSE 0
           denied   == RiskDenied(activeConfig, seen)
           limit    == IF RiskActive(activeConfig)
                       THEN Scaled(activeConfig.Limit, seen, activeConfig.DenyScore)
                       ELSE activeConfig.Limit
           capacity == IF RiskActive(activeConfig)
                       THEN Scaled(activeConfig.Capacity, seen, activeConfig.DenyScore)
                       ELSE activeConfig.Capacity
           askWindow == ~denied /\ limit > 0
           mw == MemorySlidingWindow(slidingWindowPerIP, ip, activeConfig.Window, limit, now)
           rw == RedisSlidingWindow(zsets, ip, activeConfig.Window, limit, now, "ok")
           allowedWindow == IF store = "memory" THEN mw.ok ELSE rw.ok
           askBucket == ~denied /\ (askWindow => allowedWindow) /\ capacity > 0
           mb == MemoryTokenBucket(bucketPerIp, ip, capacity,
                                   activeConfig.TokensPerInterval,
                                   activeConfig.RefillRate, now)
           rb == RedisTokenBucket(hashes, ip, capacity, activeConfig.TokensPerInterval,
                                  activeConfig.RefillRate, now, "ok")
           allowedBucket == IF store = "memory" THEN mb.ok ELSE rb.ok
       IN  /\ (~activeConfig.ScoreReader) => score = 0
           /\ slidingWindowPerIP' = IF askWindow /\ store = "memory"
                                    THEN mw.m ELSE slidingWindowPerIP
           /\ zsets' = IF askWindow /\ store = "redis" THEN rw.zs ELSE zsets
           /\ bucketPerIp' = IF askBucket /\ store = "memory" THEN mb.m ELSE bucketPerIp
           /\ hashes' = IF askBucket /\ store = "redis" THEN rb.hs ELSE hashes
           /\ response' = [NoResponse EXCEPT
                  !.status = IF denied THEN 403
                             ELSE IF (askWindow /\ ~allowedWindow)
                                     \/ (askBucket /\ ~allowedBucket) THEN 429
                             ELSE 200,
                  !.ip = ip, !.endpoint = endpoint, !.at = now, !.score = seen,
                  !.base = activeConfig, !.limit = limit, !.capacity = capacity,
                  !.window = IF askWindow THEN Verdict(allowedWindow) ELSE "none",
                  !.bucket = IF askBucket THEN Verdict(allowedBucket) ELSE "none"]
    /\ UNCHANGED <<now, phase, call, resMem, resRedis, admMem, admRedis, failedOpen,
                   concVars, store, config, policies, tickerVars, scaleVars>>

\* One request of ip to endpoint while the ScoreReader reports score.
RiskAwareMiddleware(ip, endpoint, score) ==
    /\ ncalls < MaxRequests
    /\ RiskAwareHandler(ip, endpoint, score)
    /\ UNCHANGED <<riskVars, ioVars>>

\* ------------------------------------ the feedback loop, end to end
\* The middleware reads the actor's score from the RiskEngine, and the
\* decision of every request is emitted as an event that the RiskEngine
\* consumes asynchronously.
\* The decision an event carries.
EventAction(resp) ==
    IF resp.status = 403 THEN "DENIED_RISK"
    ELSE IF resp.status = 200 THEN "ALLOWED"
    ELSE IF resp.window = "denied" THEN "DENIED_WINDOW"
    ELSE "DENIED_BUCKET"

\* The topic: the events emitted and not yet consumed, oldest first.
NewTopic == [pc |-> "idle", sent |-> <<>>]

\* One request: the ScoreReader is RiskEngine.GetScore, and the decision is
\* appended to the topic.
FeedbackRequest(ip, endpoint) ==
    /\ ~riskPanic
    /\ ncalls < MaxCalls
    /\ RiskAwareHandler(ip, endpoint, GetScore(ipScores, ip, now))
    /\ producer' = [producer EXCEPT !.sent =
                       Append(@, [ip |-> ip, action |-> EventAction(response')])]
    /\ UNCHANGED <<riskVars, reader, refillers>>

\* EventReader, the oldest event of the topic: processEvent whatever the
\* event's Action, then the threshold check.
ConsumeEmitted ==
    /\ ~riskPanic
    /\ Len(producer.sent) > 0
    /\ nevents' = nevents + 1
    /\ ScoreUnderLock(Head(producer.sent).ip, Head(producer.sent).action, now)
    /\ producer' = [producer EXCEPT !.sent = Tail(@)]
    /\ UNCHANGED <<driverVars, windowVars, bucketVars, concVars, decayRate, threshold,
                   lastRead, riskWorker, gatewayVars, tickerVars, scaleVars, reader,
                   refillers>>

\* ------------------------------- TokenBucket refilled by a ticker
\* The TokenBucket whose NewTokenBucket starts a goroutine, refillTokens, that
\* adds tokens on every tick of a time.Ticker. The repository holds it twice:
\* in token_bucket.go NewTokenBucket sets tokens to capacity, in ankyloGo.go
\* it leaves tokens at the zero value.
\* The effective value of one base Limit or Capacity as the actor's score
\* moves below DenyScore.
Bases == 1..MaxBase
DenyScores == 1..MaxDenyScore

NewScaling(base, denyScore) ==
    [base |-> base, denyScore |-> denyScore, score |-> 0,
     effective |-> Scaled(base, 0, denyScore),
     prevScore |-> 0, prevEffective |-> Scaled(base, 0, denyScore)]

\* The ScoreReader reports `score`, below DenyScore: the base value is scaled.
ScoreRead(score) ==
    /\ score < scaling.denyScore
    /\ scaling' = [scaling EXCEPT
                      !.score = score,
                      !.effective = Scaled(scaling.base, score, scaling.denyScore),
                      !.prevScore = scaling.score,
                      !.prevEffective = scaling.effective]
    /\ UNCHANGED <<driverVars, windowVars, bucketVars, concVars, riskVars, gatewayVars,
                   tickerVars, ioVars>>

TickerImpls == {"token_bucket.go", "ankyloGo.go"}
TickerRefillRates == 0..MaxRefill

\* NewTokenBucket(capacity, tokensPerInterval, refillRate): the goroutine is
\* started, not yet run.
NewTickerBucket(impl, capacity, tokensPerInterval, refillRate) ==
    [impl |-> impl,
     tokens |-> IF impl = "token_bucket.go" THEN capacity ELSE 0,
     capacity |-> capacity, tokensPerInterval |-> tokensPerInterval,
     refillRate |-> refillRate,
     refiller |-> "started", startedAt |-> 0, nextTick |-> 0, closed |-> FALSE,
     panicked |-> FALSE]

\* The ticker branch of refillTokens with the cap left out.
RefilledUncapped(tokens, capacity, tokensPerInterval) == tokens + tokensPerInterval

\* The ticker branch of refillTokens.
Refilled(tokens, capacity, tokensPerInterval) ==
    IF tokens + tokensPerInterval <= capacity THEN tokens + tokensPerInterval
    ELSE capacity

\* Time passes; a tick that is due is delivered before the clock moves on.
TickerClock ==
    /\ ~ticker.panicked
    /\ now < MaxTime
    /\ ticker.refiller = "running" => now < ticker.nextTick
    /\ now' = now + 1
    /\ UNCHANGED <<ncalls, phase, call, windowVars, bucketVars, concVars, riskVars,
                   gatewayVars, tickerVars, scaleVars, ioVars>>

\* refillTokens begins to run: time.NewTicker(tb.refillRate), which panics on
\* a non-positive duration, and with it the process.
RefillerRuns ==
    /\ ~ticker.panicked
    /\ ticker.refiller = "started"
    /\ ticker' = IF ticker.refillRate <= 0
                 THEN [ticker EXCEPT !.panicked = TRUE]
                 ELSE [ticker EXCEPT !.refiller = "running",
                                     !.startedAt = now,
                                     !.nextTick = now + ticker.refillRate]
    /\ UNCHANGED <<driverVars, windowVars, bucketVars, concVars, riskVars,
                   gatewayVars, lastTake, scaleVars, ioVars>>

\* case <-ticker.C
TickerFires ==
    /\ ~ticker.panicked
    /\ ticker.refiller = "running"
    /\ now = ticker.nextTick
    /\ ticker' = [ticker EXCEPT
                     !.tokens = Refilled(@, ticker.capacity, ticker.tokensPerInterval),
                     !.nextTick = @ + ticker.refillRate]
    /\ UNCHANGED <<driverVars, windowVars, bucketVars, concVars, riskVars,
                   gatewayVars, lastTake, scaleVars, ioVars>>

\* case <-tb.stopRefiller: the goroutine returns once the channel is closed.
RefillerStops ==
    /\ ~ticker.panicked
    /\ ticker.refiller = "running"
    /\ ticker.closed
    /\ ticker' = [ticker EXCEPT !.refiller = "returned"]
    /\ UNCHANGED <<driverVars, windowVars, bucketVars, concVars, riskVars,
                   gatewayVars, lastTake, scaleVars, ioVars>>

\* TokenBucket.StopRefiller: close(tb.stopRefiller); closing a closed channel
\* panics.
StopRefiller ==
    /\ ~ticker.panicked
    /\ ticker' = IF ticker.closed THEN [ticker EXCEPT !.panicked = TRUE]
                 ELSE [ticker EXCEPT !.closed = TRUE]
    /\ UNCHANGED <<driverVars, windowVars, bucketVars, concVars, riskVars,
                   gatewayVars, lastTake, scaleVars, ioVars>>

\* TokenBucket.TakeTokens of the ticker bucket.
TickerTakeTokens ==
    /\ ~ticker.panicked
    /\ ncalls < MaxCalls
    /\ ncalls' = ncalls + 1
    /\ ticker' = IF ticker.tokens > 0 THEN [ticker EXCEPT !.tokens = @ - 1] ELSE ticker
    /\ lastTake' = [ok |-> ticker.tokens > 0, at |-> now]
    /\ UNCHANGED <<now, phase, call, windowVars, bucketVars, concVars, riskVars,
                   gatewayVars, scaleVars, ioVars>>

\* ------------------- MemoryStore over the ticker-refilled TokenBucket
\* NewTokenBucket of token_bucket.go: a full bucket, and go tb.refillTokens.
\* lastRefill holds the time of the bucket's last tick (its creation at first).
NewRefilledBucket(capacity, tokensPerInterval, refillRate, t) ==
    [exists |-> TRUE, tokens |-> capacity, capacity |-> capacity,
     tokensPerInterval |-> tokensPerInterval, refillRate |-> refillRate,
     lastRefill |-> t]

\* The bucket after the ticks of its refillTokens that are due at time t.
TickDue(tb, t) ==
    IF tb.exists /\ t - tb.lastRefill = tb.refillRate
    THEN [tb EXCEPT !.tokens = Refilled(@, tb.capacity, tb.tokensPerInterval),
                    !.lastRefill = t]
    ELSE tb

\* Time passes; the refillTokens goroutine of each stored bucket runs its tick.
StoreClock ==
    /\ now < MaxTime
    /\ now' = now + 1
    /\ bucketPerIp' = [k \in DOMAIN bucketPerIp |-> TickDue(bucketPerIp[k], now + 1)]
    /\ UNCHANGED <<ncalls, phase, call, windowVars, hashes, concVars, riskVars,
                   gatewayVars, tickerVars, scaleVars, ioVars>>

\* MemoryStore.AllowedTokenBucket(ip, policy.limit, 1, policy.window seconds):
\* newBucket := NewTokenBucket(...) starts a refillTokens goroutine, then
\* LoadOrStore keeps the stored bucket, and TakeTokens runs on it. Nothing
\* calls StopRefiller on the bucket that LoadOrStore did not keep.
AllowedTokenBucketRefilled(ip) ==
    /\ ncalls < MaxCalls
    /\ ncalls' = ncalls + 1
    /\ refillers' = refillers + 1
    /\ LET newBucket == NewRefilledBucket(policy.limit, 1, Seconds(policy.window), now)
           bucketToken == LoadOrStore(bucketPerIp, ip, newBucket)
       IN  /\ bucketPerIp' = [bucketPerIp EXCEPT ![ip] =
                                 IF bucketToken.tokens > 0
                                 THEN [bucketToken EXCEPT !.tokens = @ - 1]
                                 ELSE bucketToken]
           /\ resMem' = (bucketToken.tokens > 0)
    /\ UNCHANGED <<now, phase, call, slidingWindowPerIP, zsets, resRedis, admMem, admRedis,
                   failedOpen, hashes, concVars, riskVars, gatewayVars, tickerVars,
                   scaleVars, reader, producer>>


InitDriver ==
    /\ now = 0
    /\ ncalls = 0
    /\ phase = "idle"
    /\ call = NoCall

InitWindow ==
    /\ slidingWindowPerIP = [k \in Keys |-> NoLimiter]
    /\ zsets = [k \in Keys |-> NoZset]
    /\ resMem = FALSE
    /\ resRedis = FALSE
    /\ admMem = [k \in Keys |-> <<>>]
    /\ admRedis = [k \in Keys |-> <<>>]
    /\ failedOpen = [k \in Keys |-> 0]

InitBucket ==
    /\ bucketPerIp = [k \in Keys |-> NoBucket]
    /\ hashes = [k \in Keys |-> NoHash]

InitConc ==
    /\ storeImpl \in StoreImpls
    /\ policy \in [window : Windows, limit : Limits]
    /\ limiters = <<>>
    /\ windowMap = [k \in Keys |-> 0]
    /\ worker = [g \in Workers |-> IdleWorker]
    /\ admConc = [k \in Keys |-> <<>>]

\* The sequential specifications leave the concurrent callers idle.
InitConcIdle ==
    /\ storeImpl = "LoadOrStore"
    /\ policy = [window |-> 1, limit |-> 1]
    /\ limiters = <<>>
    /\ windowMap = [k \in Keys |-> 0]
    /\ worker = [g \in Workers |-> IdleWorker]
    /\ admConc = [k \in Keys |-> <<>>]

InitRiskState ==
    /\ ipScores = [k \in Actors |-> NoRiskScore]
    /\ notified = [k \in Actors |-> <<>>]
    /\ nevents = 0
    /\ lastEvent = NoEvent
    /\ decayed = [k \in Actors |-> FALSE]
    /\ riskPanic = FALSE
    /\ lastRead = NoRead
    /\ riskWorker = [g \in Workers |-> IdleRiskWorker]

\* NewRiskEngine(client, threshold, topic, decayRate)
InitRisk ==
    /\ decayRate \in DecayRates
    /\ threshold \in Thresholds
    /\ InitRiskState

\* The specifications without a risk engine.
InitRiskIdle ==
    /\ decayRate = 1
    /\ threshold = 0
    /\ InitRiskState

\* RateLimiterMiddleware(store, config, endpointPolicies...)
InitGateway ==
    /\ store \in Stores
    /\ config \in Configs
    /\ policies \in PolicySets
    /\ response = NoResponse

\* The specifications without a middleware.
InitGatewayIdle ==
    /\ store = "memory"
    /\ config = NoConfig
    /\ policies = [e \in {} |-> NoConfig]
    /\ response = NoResponse

InitPolicy ==
    /\ store \in Stores
    /\ config \in RiskConfigs
    /\ policies \in PolicySets
    /\ response = NoResponse

NoTake == [ok |-> FALSE, at |-> 0]

\* NewTokenBucket(capacity, tokensPerInterval, refillRate) at time 0.
InitTicker ==
    /\ ticker \in { NewTickerBucket(impl, c, tpi, rr) :
                       impl \in TickerImpls, c \in Capacities,
                       tpi \in TokensPerIntervals, rr \in TickerRefillRates }
    /\ lastTake = NoTake

\* The specifications without a ticker bucket.
InitTickerIdle ==
    /\ ticker = NewTickerBucket("token_bucket.go", 1, 0, 1)
    /\ lastTake = NoTake

\* TakeTokens at the same time on the ticker bucket and on a lazily refilled
\* bucket built with the same arguments.
TakeTokensBoth ==
    /\ ~ticker.panicked
    /\ ncalls < MaxCalls
    /\ ncalls' = ncalls + 1
    /\ ticker' = IF ticker.tokens > 0 THEN [ticker EXCEPT !.tokens = @ - 1] ELSE ticker
    /\ lastTake' = [ok |-> ticker.tokens > 0, at |-> now]
    /\ LET r == TakeTokens(bucketPerIp["ip1"], now)
       IN  /\ bucketPerIp' = [bucketPerIp EXCEPT !["ip1"] = r.tb]
           /\ resMem' = r.ok
    /\ UNCHANGED <<now, phase, call, slidingWindowPerIP, zsets, resRedis, admMem, admRedis,
                   failedOpen, hashes, concVars, riskVars, gatewayVars, scaleVars, ioVars>>

\* The same, with a prompt refiller: its ticker started at creation and
\* every tick due by now has been delivered.
TakeTokensBothAfterTicks ==
    /\ ticker.refiller = "running" /\ ticker.startedAt = 0
    /\ ticker.nextTick > now
    /\ TakeTokensBoth

\* NewTokenBucket(capacity, tokensPerInterval, refillRate) of token_bucket.go
\* and of part_002, both at time 0.
InitRefill ==
    /\ InitDriver
    /\ InitWindow
    /\ hashes = [k \in Keys |-> NoHash]
    /\ lastTake = NoTake
    /\ \E c \in Capacities, tpi \in TokensPerIntervals, rr \in RefillRates :
          /\ ticker = NewTickerBucket("token_bucket.go", c, tpi, rr)
          /\ bucketPerIp = [k \in Keys |-> NewTokenBucket(c, tpi, rr, 0)]

\* A base value and a DenyScore, the score still 0.
InitScale == scaling \in { NewScaling(b, d) : b \in Bases, d \in DenyScores }

\* The specifications that scale nothing.
InitScaleIdle == scaling = NewScaling(1, 1)

\* The specifications without a consume loop, a publisher or refill goroutines.
IdleReader == [pc |-> "idle"]
IdleProducer == [pc |-> "idle"]
InitIoIdle ==
    /\ reader = IdleReader
    /\ producer = IdleProducer
    /\ refillers = 0

InitStores == InitDriver /\ InitWindow /\ InitBucket

Init == InitStores /\ InitConcIdle /\ InitRiskIdle /\ InitGatewayIdle /\ InitTickerIdle /\ InitScaleIdle /\ InitIoIdle

NextWindow ==
    \/ Tick
    \/ \E k \in Keys, w \in Windows, l \in Limits : RequestWindow(k, w, l)
    \/ MemoryAllowedSlidingWindow
    \/ \E o \in RedisOutcomes : RedisAllowedSlidingWindow(o)

SpecWindow == Init /\ [][NextWindow]_vars

NextWindowAdjusted ==
    \/ Tick
    \/ \E k \in Keys, w \in Windows, l \in Limits : RequestWindowAdjusted(k, w, l)
    \/ MemoryAllowedSlidingWindow
    \/ \E o \in RedisOutcomes : RedisAllowedSlidingWindow(o)

SpecWindowAdjusted == Init /\ [][NextWindowAdjusted]_vars

NextBucket ==
    \/ Tick
    \/ \E k \in Keys, c \in Capacities, tpi \in TokensPerIntervals, rr \in RefillRates :
          RequestBucket(k, c, tpi, rr)
    \/ MemoryAllowedTokenBucket
    \/ \E o \in RedisOutcomes : RedisAllowedTokenBucket(o)

SpecBucket == Init /\ [][NextBucket]_vars

NextBucketAdjusted ==
    \/ Tick
    \/ \E k \in Keys, c \in Capacities, tpi \in TokensPerIntervals, rr \in RefillRates :
          RequestBucketAdjusted(k, c, tpi, rr)
    \/ MemoryAllowedTokenBucket
    \/ \E o \in RedisOutcomes : RedisAllowedTokenBucket(o)

SpecBucketAdjusted == Init /\ [][NextBucketAdjusted]_vars

NextDrain ==
    \/ Tick
    \/ \E k \in Keys, c \in Capacities, tpi \in TokensPerIntervals, rr \in TickerRefillRates :
          RequestBucketDisabled(k, c, tpi, rr)
    \/ MemoryAllowedTokenBucket
    \/ \E o \in RedisOutcomes : RedisAllowedTokenBucket(o)

SpecDrain == Init /\ [][NextDrain]_vars

\* A refill schedule slower than the bucket key's TTL: one interval is twice
\* the TTL.
SlowRefillRates == {Seconds(2 * BucketTTL)}

\* How long a key is left idle: until just before the bucket key's TTL runs
\* out, or until it has run out.
IdleTimes == {Seconds(BucketTTL) - 1, Seconds(BucketTTL)}

\* No call for `d` ticks.
IdleFor(d) ==
    /\ phase = "idle"
    /\ now <= MaxTime
    /\ now' = now + d
    /\ UNCHANGED <<ncalls, phase, call, windowVars, bucketVars, concVars, riskVars,
                   gatewayVars, tickerVars, scaleVars, ioVars>>

\* A key's caller limits it by a window or by a bucket, one or the other.
WindowOnly(k, w, l) == ~bucketPerIp[k].exists /\ RequestWindow(k, w, l)
BucketOnly(k, c, tpi, rr) == ~slidingWindowPerIP[k].exists /\ RequestBucket(k, c, tpi, rr)

NextExpiry ==
    \/ Tick
    \/ \E d \in IdleTimes : IdleFor(d)
    \/ \E k \in Keys, w \in Windows, l \in Limits : WindowOnly(k, w, l)
    \/ MemoryAllowedSlidingWindow
    \/ \E o \in RedisOutcomes : RedisAllowedSlidingWindow(o)
    \/ \E k \in Keys, c \in Capacities, tpi \in 1..MaxTokensPerInterval, rr \in SlowRefillRates :
          BucketOnly(k, c, tpi, rr)
    \/ MemoryAllowedTokenBucket
    \/ \E o \in RedisOutcomes : RedisAllowedTokenBucket(o)

SpecExpiry == Init /\ [][NextExpiry]_vars

NextConc ==
    \/ ConcTick
    \/ \E g \in Workers, k \in Keys : EnterAllowedSlidingWindow(g, k)
    \/ \E g \in Workers : LoadOrStoreStep(g)
    \/ \E g \in Workers : LoadStep(g)
    \/ \E g \in Workers : StoreStep(g)
    \/ \E g \in Workers : AllowStep(g)

ConcInit == InitStores /\ InitConc /\ InitRiskIdle /\ InitGatewayIdle /\ InitTickerIdle /\ InitScaleIdle /\ InitIoIdle

SpecConc == ConcInit /\ [][NextConc]_vars

\* NewMemoryStore(); the callers' policy is fixed; two keys.
InitTwoKeys ==
    /\ InitDriver
    /\ slidingWindowPerIP = [k \in Actors |-> NoLimiter]
    /\ zsets = [k \in Keys |-> NoZset]
    /\ resMem = FALSE
    /\ resRedis = FALSE
    /\ admMem = [k \in Keys |-> <<>>]
    /\ admRedis = [k \in Keys |-> <<>>]
    /\ failedOpen = [k \in Keys |-> 0]
    /\ bucketPerIp = [k \in Actors |-> NoBucket]
    /\ hashes = [k \in Keys |-> NoHash]
    /\ storeImpl = "LoadOrStore"
    /\ policy \in [window : {1}, limit : Limits]
    /\ limiters = <<>>
    /\ windowMap = [k \in Keys |-> 0]
    /\ worker = [g \in Workers |-> IdleCaller]
    /\ admConc = [k \in Keys |-> <<>>]

\* The store's callers use one kind of limiter: the kind of the first call.
EnterOneKind(g, k, op) ==
    /\ \A h \in Workers : worker[h].pc # "idle" => worker[h].op = op
    /\ op = "window" => \A a \in Actors : ~bucketPerIp[a].exists
    /\ op = "bucket" => \A a \in Actors : ~slidingWindowPerIP[a].exists
    /\ EnterStore(g, k, op)

NextTwoKeys ==
    \/ ConcTick
    \/ \E g \in Workers, k \in Actors, op \in Ops : EnterOneKind(g, k, op)
    \/ \E g \in Workers : LookupStore(g)
    \/ \E g \in Workers : LockStore(g)
    \/ \E g \in Workers : BodyStore(g)

TwoKeysInit == InitTwoKeys /\ InitRiskIdle /\ InitGatewayIdle /\ InitTickerIdle /\ InitScaleIdle /\ InitIoIdle

SpecTwoKeys == TwoKeysInit /\ [][NextTwoKeys]_vars

NextRisk ==
    \/ RiskTick
    \/ \E ip \in Keys : EventRecord(ip)
    \/ MalformedRecord
    \/ \E ip \in Actors : ReadScore(ip)

RiskInit == InitStores /\ InitConcIdle /\ InitRisk /\ InitGatewayIdle /\ InitTickerIdle /\ InitScaleIdle /\ InitIoIdle

SpecRisk == RiskInit /\ [][NextRisk]_vars

\* NewMemoryStore(); two keys; the callers' policy is fixed.
InitRefilledStore ==
    /\ InitDriver
    /\ InitWindow
    /\ bucketPerIp = [k \in Actors |-> NoBucket]
    /\ hashes = [k \in Keys |-> NoHash]
    /\ storeImpl = "LoadOrStore"
    /\ policy \in [window : Windows, limit : Limits]
    /\ limiters = <<>>
    /\ windowMap = [k \in Keys |-> 0]
    /\ worker = [g \in Workers |-> IdleWorker]
    /\ admConc = [k \in Keys |-> <<>>]

NextRefilledStore ==
    \/ StoreClock
    \/ \E ip \in Actors : AllowedTokenBucketRefilled(ip)

RefilledStoreInit == InitRefilledStore /\ InitRiskIdle /\ InitGatewayIdle /\ InitTickerIdle /\ InitScaleIdle /\ InitIoIdle

SpecRefilledStore == RefilledStoreInit /\ [][NextRefilledStore]_vars

\* A middleware with a ScoreReader and a small DenyScore over a MemoryStore
\* and a RiskEngine with a positive decayRate; no endpoint policy.
InitFeedback ==
    /\ decayRate \in 1..MaxDecay
    /\ threshold = MaxThreshold
    /\ InitRiskState
    /\ store = "memory"
    /\ config \in { [NoConfig EXCEPT !.Window = 1, !.Limit = l, !.Capacity = 2,
                                      !.TokensPerInterval = 1, !.ScoreReader = TRUE,
                                      !.DenyScore = d] :
                        l \in 1..2, d \in 1..2 }
    /\ policies = [e \in {} |-> NoConfig]
    /\ response = NoResponse
    /\ reader = IdleReader
    /\ producer = NewTopic
    /\ refillers = 0

NextFeedback ==
    \/ GatewayTick
    \/ \E ip \in Keys : FeedbackRequest(ip, "GET /search")
    \/ ConsumeEmitted

FeedbackInit == InitStores /\ InitConcIdle /\ InitFeedback /\ InitTickerIdle /\ InitScaleIdle

SpecFeedback == FeedbackInit /\ [][NextFeedback]_vars

InitPublisher ==
    /\ reader = IdleReader
    /\ producer = NewPublisher
    /\ refillers = 0

NextPublish ==
    \/ \E event \in Events : Publish(event)
    \/ Produce
    \/ BrokerAck

PublishInit == InitStores /\ InitConcIdle /\ InitRiskIdle /\ InitGatewayIdle /\ InitTickerIdle /\ InitScaleIdle /\ InitPublisher

SpecPublish == PublishInit /\ [][NextPublish]_vars

\* The records of the topic carry any of the four actions.
NextRiskActions ==
    \/ RiskTick
    \/ \E ip \in Keys, action \in Actions : EventRecordWith(ip, action)
    \/ MalformedRecord
    \/ \E ip \in Keys : ReadScore(ip)

SpecRiskActions == RiskInit /\ [][NextRiskActions]_vars

\* The quiet period after the last event: records arrive until MaxTime, and
\* the clock runs on for as long as the largest score takes to decay.
DecayHorizon == MaxTime + MaxEvents * MaxDecay

QuietTick ==
    /\ ~riskPanic
    /\ now < DecayHorizon
    /\ now' = now + 1
    /\ UNCHANGED <<ncalls, phase, call, windowVars, bucketVars, concVars,
                   decayRate, threshold, ipScores, notified, nevents, lastEvent, decayed,
                   readVars, gatewayVars, tickerVars, scaleVars, ioVars>>

EventBeforeQuiet(ip) == now <= MaxTime /\ EventRecord(ip)

\* A reader that asks for the score when it may have changed: after an event
\* or a tick.
ReadScoreOnce(ip) == (~lastRead.valid \/ lastRead.at < now \/ lastRead.at <= lastEvent.at) /\ ReadScore(ip)

NextDecay ==
    \/ QuietTick
    \/ \E ip \in Keys : EventBeforeQuiet(ip)
    \/ \E ip \in Keys : ReadScoreOnce(ip)

\* NewRiskEngine with the largest threshold: the observer plays no part in decay.
InitRiskDecay ==
    /\ decayRate \in DecayRates
    /\ threshold = MaxThreshold
    /\ InitRiskState

DecayInit == InitStores /\ InitConcIdle /\ InitRiskDecay /\ InitGatewayIdle /\ InitTickerIdle /\ InitScaleIdle /\ InitIoIdle

\* Time passes and the reader keeps asking; nothing obliges a record to arrive.
SpecDecay ==
    DecayInit /\ [][NextDecay]_vars /\ WF_vars(QuietTick) /\ WF_vars(\E ip \in Keys : ReadScoreOnce(ip))

NextRiskConc ==
    \/ RiskTick
    \/ \E g \in Workers, ip \in Actors : ProcessLoadOrStore(g, ip)
    \/ \E g \in Workers : ProcessUnderLock(g)

\* NewRiskEngine with a threshold of 1: the second event in a row notifies.
InitRiskConc ==
    /\ decayRate \in DecayRates
    /\ threshold = 1
    /\ InitRiskState

RiskConcInit == InitStores /\ InitConcIdle /\ InitRiskConc /\ InitGatewayIdle /\ InitTickerIdle /\ InitScaleIdle /\ InitIoIdle

SpecRiskConc == RiskConcInit /\ [][NextRiskConc]_vars

\* go engine.EventReader(ctx) on an engine with a threshold of 1.
InitReader ==
    /\ reader = NewReader
    /\ producer = IdleProducer
    /\ refillers = 0

NextReader ==
    \/ ReaderTick
    \/ CancelContext
    \/ CloseClient
    \/ \E batch \in Batches, errs \in BOOLEAN : PollRecords(batch, errs)
    \/ PollError
    \/ CheckFetch
    \/ EachRecord
    \/ AfterRecords

ReaderInit == InitStores /\ InitConcIdle /\ InitRiskConc /\ InitGatewayIdle /\ InitTickerIdle /\ InitScaleIdle /\ InitReader

\* The goroutine that runs the loop is scheduled; nothing obliges the caller
\* to cancel the context or to close the client.
SpecReader == ReaderInit /\ [][NextReader]_vars /\ WF_vars(ReaderStep)

NextGateway ==
    \/ GatewayTick
    \/ \E ip \in Keys, endpoint \in Endpoints, o1 \in RedisOutcomes, o2 \in RedisOutcomes :
          RateLimiterMiddleware(ip, endpoint, o1, o2)

GatewayInit == InitStores /\ InitConcIdle /\ InitRiskIdle /\ InitGateway /\ InitTickerIdle /\ InitScaleIdle /\ InitIoIdle

SpecGateway == GatewayInit /\ [][NextGateway]_vars

NextPolicy ==
    \/ GatewayTick
    \/ \E ip \in Keys, endpoint \in Endpoints, score \in Scores :
          RiskAwareMiddleware(ip, endpoint, score)

PolicyInit == InitStores /\ InitConcIdle /\ InitRiskIdle /\ InitPolicy /\ InitTickerIdle /\ InitScaleIdle /\ InitIoIdle

SpecPolicy == PolicyInit /\ [][NextPolicy]_vars

TickerInit == InitStores /\ InitConcIdle /\ InitRiskIdle /\ InitGatewayIdle /\ InitTicker /\ InitScaleIdle /\ InitIoIdle

NextTicker ==
    \/ TickerClock
    \/ RefillerRuns
    \/ TickerFires
    \/ RefillerStops
    \/ StopRefiller
    \/ TickerTakeTokens

SpecTicker == TickerInit /\ [][NextTicker]_vars

NextRefill ==
    \/ TickerClock
    \/ RefillerRuns
    \/ TickerFires
    \/ TakeTokensBoth

RefillInit == InitRefill /\ InitConcIdle /\ InitRiskIdle /\ InitGatewayIdle /\ InitScaleIdle /\ InitIoIdle

SpecRefill == RefillInit /\ [][NextRefill]_vars

NextRefillPrompt ==
    \/ TickerClock
    \/ RefillerRuns
    \/ TickerFires
    \/ TakeTokensBothAfterTicks

SpecRefillPrompt == RefillInit /\ [][NextRefillPrompt]_vars

NextScale == \E score \in 0..MaxDenyScore : ScoreRead(score)

ScaleInit == InitStores /\ InitConcIdle /\ InitRiskIdle /\ InitGatewayIdle /\ InitTickerIdle /\ InitScale /\ InitIoIdle

SpecScale == ScaleInit /\ [][NextScale]_vars

\* ================================================================ claims
\* How many of the admission times in `adm` fall in the interval (lo, hi].
CountIn(adm, lo, hi) ==
    Cardinality({i \in DOMAIN adm : lo < adm[i] /\ adm[i] <= hi})

\* The admissions before the last one.
Earlier(adm) == SubSeq(adm, 1, Len(adm) - 1)

\* The last call was answered by both stores.
Answered == phase = "idle" /\ call.op # "none"

\* C1: token-bucket invariant. In every state, every stored token count
\* satisfies 0 <= tokens <= capacity: the local bucket against its own
\* capacity, the shared-store bucket against the capacity argument of the
\* call whose script last wrote it (successive calls may pass different
\* capacities).
C1_TokensWithinCapacity ==
    \A k \in Keys :
        /\ bucketPerIp[k].exists =>
              0 <= bucketPerIp[k].tokens /\ bucketPerIp[k].tokens <= bucketPerIp[k].capacity
        /\ (Answered /\ call.op = "bucket" /\ call.key = k /\ call.outcome # "down") =>
              0 <= hashes[k].tokens /\ hashes[k].tokens <= call.capacity

\* The local half of C1 alone, which the code keeps.
LocalTokensWithinCapacity ==
    \A k \in Keys :
        bucketPerIp[k].exists =>
            0 <= bucketPerIp[k].tokens /\ bucketPerIp[k].tokens <= bucketPerIp[k].capacity

C9_DecidedAgainstPassedLimit ==
    /\ (phase \in {"redis", "idle"} /\ call.op = "window" /\ resMem) =>
          CountIn(Earlier(admMem[call.key]), call.at - Seconds(call.window), call.at)
              < call.limit
    /\ (Answered /\ call.op = "window" /\ failedOpen[call.key] = 0 /\ resRedis) =>
          CountIn(Earlier(admRedis[call.key]), call.at - Seconds(call.window), call.at)
              < call.limit

\* The shared-store half of C9 alone, which the code keeps.
RedisDecidedAgainstPassedLimit ==
    (Answered /\ call.op = "window" /\ failedOpen[call.key] = 0 /\ resRedis) =>
        CountIn(Earlier(admRedis[call.key]), call.at - Seconds(call.window), call.at)
            < call.limit

\* C10: the two stores are observationally identical. With no failure of the
\* remote store, the same call at the same time gets the same result from
\* the MemoryStore and from the RedisStore.
C10_SameResults ==
    (Answered /\ failedOpen[call.key] = 0) => resMem = resRedis

\* C3: for any interleaving of concurrent admitWindow calls on one key of the
\* local store, including calls racing on the first sight of the key, a single
\* limiter object exists for the key, and the calls admitted at times in any
\* interval (t - window, t] number at most limit.
C3_OneLimiterAtMostLimit ==
    \A k \in Keys :
        /\ Len(limiters) <= Cardinality(Keys)
        /\ \A t \in 0..MaxTime :
              CountIn(admConc[k], t - Seconds(policy.window), t) <= policy.limit

\* C3 for the MemoryStore that uses LoadOrStore alone, which keeps it.
LoadOrStoreOneLimiterAtMostLimit ==
    storeImpl = "LoadOrStore" => C3_OneLimiterAtMostLimit

\* C4: an event processed at time now for an actor with stored (score,
\* lastUpdated) leaves score' = max(0, score - floor((now - lastUpdated) /
\* decayRate)) + 1 and lastUpdated' = now, and returns score'; an absent
\* record counts as score 0 last updated now.
C4_ProcessEventTransition ==
    lastEvent.valid =>
        LET before  == IF lastEvent.found.exists THEN lastEvent.found.score ELSE 0
            since   == IF lastEvent.found.exists THEN lastEvent.found.lastUpdated
                       ELSE lastEvent.at
            d       == (lastEvent.at - since) \div decayRate
            reduced == IF before >= d THEN before - d ELSE 0
        IN  /\ lastEvent.ret = reduced + 1
            /\ ipScores[lastEvent.ip].exists
            /\ ipScores[lastEvent.ip].score = reduced + 1
            /\ ipScores[lastEvent.ip].lastUpdated = lastEvent.at

\* C4 is exercised where it matters: an event found a record whose score was
\* smaller than the number of decay intervals elapsed, and returned 1.
C4_Witness ==
    /\ lastEvent.valid /\ lastEvent.found.exists
    /\ lastEvent.found.score >= 2
    /\ (lastEvent.at - lastEvent.found.lastUpdated) \div decayRate > lastEvent.found.score
    /\ lastEvent.ret = 1

\* C5: with no decay interval elapsing between an actor's events, the observer
\* is notified exactly once, on the event where the score first exceeds the
\* threshold, and not again while the score stays above it.
C5_NotifiedOnceOnCrossing ==
    \A ip \in Keys :
        ~decayed[ip] =>
            Len(notified[ip]) = (IF ipScores[ip].score > threshold THEN 1 ELSE 0)

\* What the EventReader does keep: every notification carries a score above
\* the threshold, and none is sent before the score exceeds it.
NotifiedOnlyAboveThreshold ==
    \A ip \in Keys :
        /\ \A i \in 1..Len(notified[ip]) : notified[ip][i] > threshold
        /\ (~decayed[ip] /\ ipScores[ip].score <= threshold) => notified[ip] = <<>>

C6_RiskDenialBypassesStores ==
    [][ (ncalls' # ncalls
         /\ response'.base.ScoreReader /\ response'.base.DenyScore > 0
         /\ response'.score >= response'.base.DenyScore)
        => (/\ response'.status = 403
            /\ response'.window = "none" /\ response'.bucket = "none"
            /\ UNCHANGED <<slidingWindowPerIP, zsets, bucketPerIp, hashes>>) ]_vars

\* C6 is exercised: a request is answered 403 at a score equal to DenyScore
\* while the actor's window has room and its bucket has tokens.
C6_Witness ==
    /\ response.status = 403 /\ store = "memory"
    /\ response.score = response.base.DenyScore
    /\ slidingWindowPerIP[response.ip].exists
    /\ Len(slidingWindowPerIP[response.ip].logs) < slidingWindowPerIP[response.ip].limit
    /\ bucketPerIp[response.ip].exists /\ bucketPerIp[response.ip].tokens > 0

C11_StartsFull ==
    (ncalls >= 1 /\ ticker.refillRate > 0 /\ lastTake.at < ticker.refillRate) =>
        lastTake.ok = (ncalls <= ticker.capacity)

\* C11 for the bucket of token_bucket.go alone, which keeps it.
StartsFullWhenTokensSet ==
    ticker.impl = "token_bucket.go" => C11_StartsFull

\* The tokens the refill rule of the contract makes available to a bucket
\* drained to 0, k full refill intervals later.
RefillAfter(capacity, tokensPerInterval, k) == Min(capacity, k * tokensPerInterval)

\* C12: refill amount. When the previous call for a key took the bucket's
\* last token and k full refill intervals pass with no call in between, the
\* next call finds exactly min(capacity, k * tokensPerInterval) tokens: it is
\* admitted and leaves one fewer when that is at least 1, and is denied when
\* it is 0 -- in the local bucket and in the shared-store bucket.
C12_RefillAmount ==
    [][ /\ (/\ phase = "mem" /\ phase' = "redis" /\ call.op = "bucket"
            /\ call.prevAt >= 0 /\ resMem
            /\ bucketPerIp[call.key].exists /\ bucketPerIp[call.key].tokens = 0)
           => LET b == bucketPerIp[call.key]
                  k == (call.at - call.prevAt) \div b.refillRate
                  avail == RefillAfter(b.capacity, b.tokensPerInterval, k)
              IN  /\ resMem' = (avail >= 1)
                  /\ bucketPerIp'[call.key].tokens = Max(avail - 1, 0)
        /\ (/\ phase = "redis" /\ phase' = "idle" /\ call.op = "bucket"
            /\ call.prevAt >= 0 /\ resRedis
            /\ failedOpen[call.key] = 0 /\ failedOpen' = failedOpen
            /\ hashes[call.key].exists /\ hashes[call.key].tokens = 0)
           => LET k == (call.at - call.prevAt) \div call.refillRate
                  avail == RefillAfter(call.capacity, call.tokensPerInterval, k)
              IN  /\ resRedis' = (avail >= 1)
                  /\ hashes'[call.key].tokens = Max(avail - 1, 0) ]_vars

\* The local half of C12 with the k intervals counted from the bucket's
\* lastRefill instead of from the call that drained it, which the code keeps.
RefillAmountSinceLastRefill ==
    [][ (/\ phase = "mem" /\ phase' = "redis" /\ call.op = "bucket"
         /\ bucketPerIp[call.key].exists /\ bucketPerIp[call.key].tokens = 0
         /\ bucketPerIp[call.key].tokensPerInterval > 0)
        => LET b == bucketPerIp[call.key]
               k == (call.at - b.lastRefill) \div b.refillRate
               avail == RefillAfter(b.capacity, b.tokensPerInterval, k)
           IN  /\ resMem' = (avail >= 1)
               /\ bucketPerIp'[call.key].tokens = Max(avail - 1, 0) ]_vars

\* The time of the first call for key k: a fresh key's first call is admitted
\* by the local store whenever limit >= 1.
FirstCallAt(k) == admMem[k][1]

\* The last call was made within one window of the key's first call.
WithinFirstWindow ==
    /\ Answered /\ call.op = "window"
    /\ Len(admMem[call.key]) >= 1
    /\ call.at - FirstCallAt(call.key) < Seconds(call.window)

AdmittedBefore(adm, ok) == IF ok THEN Earlier(adm) ELSE adm

\* More than `window` has passed between the most recent admission in adm and
\* the last call.
WindowElapsed(adm) ==
    /\ Len(adm) >= 1
    /\ call.at - adm[Len(adm)] > Seconds(call.window)

\* C14: window recovery. For limit >= 1, a call made strictly more than window
\* after the key's most recent admitted request is admitted, by the local
\* store and by the shared store, wherever in their seconds the two
\* timestamps fall.
C14_WindowRecovery ==
    (Answered /\ call.op = "window" /\ call.limit >= 1) =>
        /\ WindowElapsed(AdmittedBefore(admMem[call.key], resMem)) => resMem
        /\ WindowElapsed(AdmittedBefore(admRedis[call.key], resRedis)) => resRedis

\* The shared-store half of C14, which the script keeps.
RedisWindowRecovers ==
    (Answered /\ call.op = "window" /\ call.limit >= 1) =>
        (WindowElapsed(AdmittedBefore(admRedis[call.key], resRedis)) => resRedis)

\* The ticker bucket was built with tokensPerInterval = 0 or refillRate = 0.
TickerRefillDisabled ==
    /\ ticker.impl = "token_bucket.go"
    /\ ticker.tokensPerInterval = 0 \/ ticker.refillRate = 0

\* C15: with tokensPerInterval = 0 or refillRate = 0 refill is disabled and the
\* bucket only drains. Creating the bucket and calling TakeTokens never
\* panics (StopRefiller left aside), the first capacity calls are admitted
\* and every later one is denied, however much time has passed.
C15_RefillDisabled ==
    TickerRefillDisabled =>
        /\ ~ticker.closed => ~ticker.panicked
        /\ ncalls >= 1 => lastTake.ok = (ncalls <= ticker.capacity)

\* C15 for the ticker bucket with tokensPerInterval = 0 and a positive
\* refillRate, where the ticker adds nothing.
TickerDrainsOnlyWithoutTokens ==
    (TickerRefillDisabled /\ ticker.refillRate > 0) =>
        /\ ~ticker.closed => ~ticker.panicked
        /\ ncalls >= 1 => lastTake.ok = (ncalls <= ticker.capacity)

\* C15 for the lazily refilled local bucket.
LocalDrainsOnly ==
    (Answered /\ call.op = "bucket"
        /\ (call.tokensPerInterval = 0 \/ call.refillRate = 0)) =>
        resMem = (ncalls <= call.capacity)

\* C15 for the shared-store bucket, no call having failed open.
RedisDrainsOnly ==
    (Answered /\ call.op = "bucket" /\ failedOpen[call.key] = 0
        /\ (call.tokensPerInterval = 0 \/ call.refillRate = 0)) =>
        resRedis = (ncalls <= call.capacity)

\* The shared-store bucket with tokensPerInterval = 0 only drains.
RedisDrainsOnlyWithoutTokens ==
    (Answered /\ call.op = "bucket" /\ failedOpen[call.key] = 0
        /\ call.tokensPerInterval = 0) =>
        resRedis = (ncalls <= call.capacity)

\* C16: GetScore is a pure read. It returns max(0, score - floor((now -
\* lastUpdated) / decayRate)) for a known actor and 0 for an unknown one, and
\* leaves every stored score and lastUpdated, every record's existence and
\* the notifications sent unchanged, so that a later processEvent decays from
\* the values stored before the read.
C16_GetScorePureRead ==
    [][ lastRead' # lastRead =>
          LET ip == lastRead'.ip
              rec == ipScores[ip]
              steps == (lastRead'.at - rec.lastUpdated) \div decayRate
          IN  /\ lastRead'.ret = (IF ~rec.exists THEN 0
                                  ELSE IF rec.score > steps THEN rec.score - steps
                                  ELSE 0)
              /\ ipScores' = ipScores
              /\ notified' = notified ]_vars

\* C16's case: a read found a known actor's score decayed, by less than the
\* score, and the record still holds the undecayed score and its old
\* lastUpdated.
C16_Witness ==
    /\ lastRead.valid /\ lastRead.at = now
    /\ ipScores[lastRead.ip].exists
    /\ ipScores[lastRead.ip].lastUpdated < now
    /\ lastRead.ret >= 1
    /\ lastRead.ret < ipScores[lastRead.ip].score

\* C17: with decayRate = 0 decay is disabled. processEvent and GetScore never
\* panic, every event raises the actor's score by exactly 1 whatever time has
\* passed, and GetScore returns the stored score.
C17_ZeroDecayRate ==
    decayRate = 0 =>
        /\ ~riskPanic
        /\ lastEvent.valid => lastEvent.ret = lastEvent.found.score + 1
        /\ (lastRead.valid /\ lastRead.at = now) =>
              lastRead.ret = ipScores[lastRead.ip].score

\* What holds with decayRate = 0: GetScore of an unknown actor returns 0, and
\* no event is ever scored.
ZeroDecayRateScoresNothing ==
    decayRate = 0 =>
        /\ ~lastEvent.valid
        /\ \A ip \in Actors : ipScores[ip].score = 0
        /\ lastRead.valid => lastRead.ret = 0

\* The goroutine stepping, and the actor its processEvent is for.
RiskWorkerSteps(g) == riskWorker'[g] # riskWorker[g]
ActorOf(g) == IF riskWorker[g].pc = "loaded" THEN riskWorker[g].ip ELSE riskWorker'[g].ip

\* C18: actors are isolated. A step of processEvent for actor A, in any
\* interleaving with other callers, leaves the record (existence, score,
\* lastUpdated) and the notifications of every other actor B unchanged.
C18_ActorsIsolated ==
    [][ \A g \in Workers, b \in Actors :
          (RiskWorkerSteps(g) /\ ActorOf(g) # b) =>
              /\ ipScores'[b] = ipScores[b]
              /\ notified'[b] = notified[b] ]_vars

\* C18's case: both actors have a record, with different scores, while a
\* goroutine is between LoadOrStore and the update for one of them.
C18_Witness ==
    /\ ipScores["ip1"].exists /\ ipScores["ip2"].exists
    /\ ipScores["ip1"].score >= 2 /\ ipScores["ip2"].score = 1
    /\ riskWorker["g1"].pc = "loaded" /\ riskWorker["g1"].ip = "ip2"
    /\ lastEvent.valid /\ lastEvent.ip = "ip1"

\* C19: risk scaling only scales down. For a base value b >= 1 and a score s
\* with 0 <= s < denyScore the effective value e satisfies 1 <= e <= b, e = b
\* when s = 0, e is no larger at a score that is no smaller, and score 5 of
\* DenyScore 10 turns a base of 10 into 5.
C19_ScalesDownOnly ==
    /\ 1 <= scaling.effective /\ scaling.effective <= scaling.base
    /\ scaling.score = 0 => scaling.effective = scaling.base
    /\ scaling.score >= scaling.prevScore => scaling.effective <= scaling.prevEffective
    /\ scaling.score <= scaling.prevScore => scaling.effective >= scaling.prevEffective
    /\ (scaling.base = 10 /\ scaling.denyScore = 10 /\ scaling.score = 5) =>
          scaling.effective = 5

\* C19's case: a base of 10 under DenyScore 10 went from a score of 9, where
\* the floor of 1 applies, to the score 5 and the effective value 5.
C19_Witness ==
    /\ scaling.base = 10 /\ scaling.denyScore = 10
    /\ scaling.prevScore = 9 /\ scaling.prevEffective = 1
    /\ scaling.score = 5 /\ scaling.effective = 5

\* C20: a zero limit means the algorithm is disabled. With Limit = 0 the
\* sliding window rejects no request, with Capacity = 0 the token bucket
\* rejects no request, and with the all-zero Config every request is admitted.
C20_ZeroMeansDisabled ==
    response.status # 0 =>
        /\ response.base.Limit = 0 => response.window # "denied"
        /\ response.base.Capacity = 0 => response.bucket # "denied"
        /\ response.base = ZeroConfig => response.status = 200

\* What the middleware does with a zero Limit or Capacity, every request
\* being under the same Config: the store is asked and, unless the call fails
\* open, denies, and the request is answered 429.
ZeroMeansDenyAll ==
    (response.status # 0 /\ DOMAIN policies = {}) =>
        /\ (response.base.Limit = 0 /\ response.windowOutcome = "ok") =>
              (response.window = "denied" /\ response.status = 429)
        /\ (response.base.Capacity = 0 /\ response.bucketOutcome = "ok"
                /\ response.window = "admitted") =>
              (response.bucket = "denied" /\ response.status = 429)

\* What each algorithm of the store answers for ip under cfg in the current
\* state, the remote round trips ending in o1 and o2.
WindowAdmits(ip, cfg, o1) ==
    IF store = "memory"
    THEN MemorySlidingWindow(slidingWindowPerIP, ip, cfg.Window, cfg.Limit, now).ok
    ELSE RedisSlidingWindow(zsets, ip, cfg.Window, cfg.Limit, now, o1).ok

BucketAdmits(ip, cfg, o2) ==
    IF store = "memory"
    THEN MemoryTokenBucket(bucketPerIp, ip, cfg.Capacity, cfg.TokensPerInterval,
                           cfg.RefillRate, now).ok
    ELSE RedisTokenBucket(hashes, ip, cfg.Capacity, cfg.TokensPerInterval,
                          cfg.RefillRate, now, o2).ok

\* C21: both algorithms must pass. With Limit > 0 and Capacity > 0 a request
\* is answered 200 exactly when the sliding window admits it and the token
\* bucket admits it, and 429 when either denies it.
C21_BothMustPass ==
    [][ (ncalls' = ncalls + 1
            /\ response'.base.Limit > 0 /\ response'.base.Capacity > 0) =>
          LET w == WindowAdmits(response'.ip, response'.base, response'.windowOutcome)
              b == BucketAdmits(response'.ip, response'.base, response'.bucketOutcome)
          IN  /\ (w /\ b) => response'.status = 200
              /\ ~(w /\ b) => response'.status = 429 ]_vars

\* C21's case: with both algorithms enabled the window admitted a request
\* and the bucket denied it, and it was answered 429.
C21_Witness ==
    /\ response.status = 429
    /\ response.base.Limit > 0 /\ response.base.Capacity > 0
    /\ response.window = "admitted" /\ response.bucket = "denied"

\* C22: the two refill strategies are externally identical. A bucket refilled
\* by the ticker and a bucket refilled lazily, created at the same time with
\* the same arguments, return the same result to every TakeTokens made at
\* the same time.
C22_SameRefillResults ==
    ncalls >= 1 => lastTake.ok = resMem

\* The two buckets agree in every call made before the first interval has
\* passed, where both only drain.
SameRefillResultsFirstInterval ==
    (ncalls >= 1 /\ lastTake.at < ticker.refillRate) => lastTake.ok = resMem

\* The notifications of ip sent on a crossing: the event raised the score
\* from threshold to threshold + 1.
CrossingIdx(ip) == {i \in 1..Len(notified[ip]) : notified[ip][i] = threshold + 1}

\* The score the last event found, after decay.
FoundDecayed ==
    LET steps == (lastEvent.at - lastEvent.found.lastUpdated) \div decayRate
    IN  IF ~lastEvent.found.exists THEN 0
        ELSE IF lastEvent.found.score > steps THEN lastEvent.found.score - steps
        ELSE 0

\* The last event took the score of an actor notified before from threshold
\* to above it: the score had returned to the threshold through decay.
Recrossed ==
    /\ lastEvent.valid /\ lastEvent.found.exists
    /\ lastEvent.found.score > threshold
    /\ FoundDecayed = threshold

\* The re-crossing event notifies.
RecrossingNotifies ==
    Recrossed =>
        /\ Len(notified[lastEvent.ip]) >= 2
        /\ notified[lastEvent.ip][Len(notified[lastEvent.ip])] = threshold + 1

\* C23: notification re-arms per excursion. After an actor's score has
\* returned to at or below threshold through decay, the next event that takes
\* it above threshold notifies again, and no later event of that excursion
\* does: every notification after a re-crossing is itself a crossing.
C23_RearmsOncePerExcursion ==
    /\ RecrossingNotifies
    /\ \A ip \in Keys : \A i \in 1..Len(notified[ip]) :
          (\E j \in CrossingIdx(ip), k \in CrossingIdx(ip) : j < k /\ k < i) =>
              i \in CrossingIdx(ip)

\* C24: notified is never reset. Each actor causes at most one notification
\* over the engine's lifetime, even when its score decays to 0 and climbs
\* above threshold again.
C24_NotifiedAtMostOnce ==
    \A ip \in Keys : Len(notified[ip]) <= 1

\* What holds instead of C24: an actor whose score never got above the
\* threshold after some event was never notified.
NeverAboveNeverNotified ==
    \A ip \in Keys :
        (notified[ip] = <<>> /\ lastEvent.valid /\ lastEvent.ip = ip) =>
            lastEvent.ret <= threshold

\* C25: only denial events are scored: an event whose action is ALLOWED
\* that is consumed without a panic leaves the actor's score and lastUpdated
\* as they were and creates no record.
C25_AllowedNotScored == [][ (nevents' = nevents + 1 /\ lastEvent' # lastEvent /\ ~riskPanic'
                             /\ lastEvent'.action = "ALLOWED") => ipScores' = ipScores ]_vars

\* A denial event runs the transition: the record holds the returned score, at least 1.
DeniedScored == [][ (nevents' = nevents + 1 /\ lastEvent' # lastEvent /\ lastEvent'.valid
                     /\ lastEvent'.action # "ALLOWED")
                    => /\ ipScores'[lastEvent'.ip] = NewRiskScore(lastEvent'.ret, lastEvent'.at)
                       /\ lastEvent'.ret >= 1 ]_vars

\* C26: no permanent ban: with decayRate > 0, once no further event arrives
\* for the actor, the calls of GetScore come to return less than every
\* denyScore, and 0, from then on.
C26_NoPermanentBan ==
    (decayRate > 0 /\ <>[][nevents' = nevents]_nevents) =>
        <>[](/\ lastRead.valid
             /\ lastRead.ret = 0
             /\ \A d \in DenyScores : lastRead.ret < d)

\* A reader saw a score of two or more go back to 0 with no event in between.
C26_Witness ==
    /\ decayRate > 0
    /\ lastEvent.valid /\ lastEvent.ret >= 2
    /\ lastRead.valid /\ lastRead.ip = lastEvent.ip
    /\ lastRead.at > lastEvent.at /\ lastRead.ret = 0

\* The local store has just answered a window call; the shared store has
\* just run the script for one.
LocalWindowAnswered == phase = "redis" /\ call.op = "window"
RedisWindowAnswered == phase = "idle" /\ call.op = "window" /\ call.at = now /\ call.outcome = "ok"

\* No entry the local store retains is older than the window.
LocalNoStaleEntry ==
    LocalWindowAnswered =>
        \A i \in 1..Len(slidingWindowPerIP[call.key].logs) :
            slidingWindowPerIP[call.key].logs[i] >= call.at - Seconds(call.window)

\* No entry the shared store retains is older than the window.
RedisNoStaleEntry ==
    RedisWindowAnswered =>
        \A i \in 1..Len(zsets[call.key].members) :
            zsets[call.key].members[i] >= call.at - Seconds(call.window)

\* C27: after every admitWindow call at time now, every timestamp a store
\* retains for the key is at least now - window, at full resolution.
C27_NoStaleEntry == LocalNoStaleEntry /\ RedisNoStaleEntry

\* At the resolution of whole seconds the local store retains nothing older
\* than the window.
LocalNoStaleSecond ==
    LocalWindowAnswered =>
        \A i \in 1..Len(slidingWindowPerIP[call.key].logs) :
            UnixSec(slidingWindowPerIP[call.key].logs[i]) >= UnixSec(call.at) - call.window

\* The entries of a log that sit exactly at the cutoff.
AtCutoff(logs, cutoff) == {i \in 1..Len(logs) : logs[i] = cutoff}

\* The local store evicts an entry exactly at now - window and does not count it.
LocalTieEvicted ==
    [][ (phase = "mem" /\ phase' = "redis" /\ call.op = "window") =>
        LET old    == slidingWindowPerIP[call.key].logs
            cutoff == now - Seconds(call.window)
        IN  /\ AtCutoff(slidingWindowPerIP'[call.key].logs, cutoff) = {}
            /\ (AtCutoff(old, cutoff) = DOMAIN old) => resMem' ]_vars

\* The shared store evicts an entry exactly at now - window and does not count it.
RedisTieEvicted ==
    [][ (phase = "redis" /\ phase' = "idle" /\ call.op = "window" /\ call'.outcome = "ok") =>
        LET old    == LiveZset(zsets[call.key], now).members
            cutoff == now - Seconds(call.window)
        IN  /\ AtCutoff(zsets'[call.key].members, cutoff) = {}
            /\ (AtCutoff(old, cutoff) = DOMAIN old) => resRedis' ]_vars

\* C28: boundary tie-break: in both stores an entry whose timestamp is
\* exactly cutoff = now - window is evicted by the call and is not counted.
C28_TieEvicted == LocalTieEvicted /\ RedisTieEvicted

\* The shared store had an entry exactly at the cutoff, evicted it and admitted.
RedisTieSeen ==
    /\ RedisWindowAnswered /\ resRedis
    /\ \E i \in 1..Len(admRedis[call.key]) : admRedis[call.key][i] = call.at - Seconds(call.window)
    /\ Len(zsets[call.key].members) = 1

\* The bucket key as it would be had its TTL not run out.
Unexpired(h, t) == [h EXCEPT !.expireAt = t + 1]

\* A bucket call with a refill schedule that the shared store admits would
\* have been admitted had the key not expired.
BucketExpiryNeverAdmits ==
    [][ (phase = "redis" /\ phase' = "idle" /\ call.op = "bucket" /\ call'.outcome = "ok"
         /\ call.tokensPerInterval > 0 /\ hashes[call.key].exists /\ resRedis')
        => TokenBucketScript(Unexpired(hashes[call.key], now), now, call.capacity,
                             call.tokensPerInterval, call.refillRate, 1,
                             UnixSec(now)).ret = 1 ]_vars

\* The entries of the key inside the window of a call are still there when
\* the script runs: the key's TTL has taken none of them.
WindowExpiryLosesNothing ==
    [][ (phase = "redis" /\ phase' = "idle" /\ call.op = "window" /\ call'.outcome = "ok")
        => LET inside(members) == SelectSeq(members, LAMBDA x : x > now - Seconds(call.window))
           IN  inside(LiveZset(zsets[call.key], now).members) = inside(zsets[call.key].members) ]_vars

\* C29: key expiry in the shared store never makes a later call succeed that
\* would have been denied: a drained bucket whose refill schedule has not
\* produced a token is still denied after the 600 s expiry, and no
\* sliding-window entry inside the window is lost to expiry.
C29_ExpirySafe == BucketExpiryNeverAdmits /\ WindowExpiryLosesNothing

\* A window key expired with entries in it, all of them outside the window.
WindowKeyExpired ==
    /\ phase = "redis" /\ call.op = "window"
    /\ Len(zsets[call.key].members) > 0
    /\ LiveZset(zsets[call.key], now) = NoZset

\* The key a step of goroutine g works on.
ActingKey(g) == IF worker[g].pc = "idle" THEN worker'[g].key ELSE worker[g].key

\* A step of a call on one key leaves the limiter and the bucket stored under
\* every other key as they were.
OtherKeysUnchanged ==
    \A g \in Workers : worker'[g] # worker[g] =>
        \A k \in Actors \ {ActingKey(g)} :
            /\ slidingWindowPerIP'[k] = slidingWindowPerIP[k]
            /\ bucketPerIp'[k] = bucketPerIp[k]

\* A goroutine at Lock() whose key no other goroutine holds a mutex for can
\* take its mutex, whatever mutexes are held for other keys.
NeverWaitsForOtherKey ==
    \A g \in Workers :
        (/\ worker[g].pc = "lock"
         /\ \A h \in Workers \ {g} : worker[h].pc = "held" => worker[h].key # worker[g].key)
        => ENABLED LockStore(g)

InFlight(a) == Cardinality({g \in Workers : riskWorker[g].pc = "loaded" /\ riskWorker[g].ip = a})

RECURSIVE SumScores(_)
SumScores(A) ==
    IF A = {} THEN 0
    ELSE LET a == CHOOSE x \in A : TRUE
         IN  ipScores[a].score + InFlight(a) + SumScores(A \ {a})

\* C31: concurrent processEvent calls lose no update: as long as no decay
\* interval has elapsed for any actor, the stored scores and the calls still
\* before their update add up to the number of events, in every interleaving;
\* an actor that has a call in hand has one record.
C31_NoLostUpdate ==
    (~riskPanic /\ decayRate > 0 /\ \A a \in Actors : ~decayed[a]) =>
        /\ SumScores(Actors) = nevents
        /\ \A a \in Actors : InFlight(a) > 0 => ipScores[a].exists

\* Two events of one actor were in hand together, the first to finish found a
\* fresh record and the second is still before its update.
C31_Witness ==
    /\ decayRate > 0 /\ ~decayed["ip1"] /\ ~decayed["ip2"]
    /\ nevents = 2 /\ InFlight("ip1") = 1
    /\ ipScores["ip1"].score = 1
    /\ lastEvent.valid /\ lastEvent.ip = "ip1" /\ lastEvent.found.score = 0

\* The loop has seen the cancellation: it is at the ctx.Err() check with the
\* context cancelled, or it has returned.
CancellationSeen == (reader.pc = "polled" /\ reader.cancelled) \/ reader.pc = "returned"

\* C32: the consume loop exits when its context is cancelled and processes no
\* record of the poll during which the cancellation was observed: from the
\* ctx.Err() check on, the loop's next step is its return, and no score
\* changes, no record is consumed and no notification happens.
C32_CancelledProcessesNothing ==
    [][ CancellationSeen =>
            /\ ipScores' = ipScores /\ notified' = notified /\ nevents' = nevents
            /\ reader'.pc \in {reader.pc, "returned"} ]_vars

\* The loop returned on a cancellation with the records of its last poll unprocessed,
\* after it had scored an earlier batch.
C32_Witness ==
    /\ reader.pc = "returned" /\ reader.cancelled
    /\ reader.fetch.records # <<>> /\ ~reader.fetch.errs
    /\ Head(reader.fetch.records).kind = "event"
    /\ nevents >= 1 /\ lastEvent.valid

\* Once the context is cancelled the loop returns (unless the process dies of
\* the division by a zero decayRate first).
CancelledReturns == reader.cancelled ~> (reader.pc = "returned" \/ riskPanic)

\* C33: the consume loop ends when the broker client is closed: once the
\* client is closed, EventReader returns.
C33_ClosedReturns == reader.closed ~> (reader.pc = "returned" \/ riskPanic)

\* The return after fetches.IsClientClosed() is never taken: the loop returns
\* only on a cancelled context.
ReturnsOnlyOnCancel == reader.pc = "returned" => reader.cancelled

\* The loop is polling a closed client again, after a poll that reported it closed.
ClosedPolledAgain ==
    /\ reader.closed /\ ~reader.cancelled
    /\ reader.pc = "poll" /\ reader.fetch.clientClosed

\* The callback is about to run on a record of this kind.
NextRecordIs(kind) ==
    /\ reader.pc = "records" /\ reader.fetch.records # <<>>
    /\ Head(reader.fetch.records).kind = kind
    /\ nevents' = nevents + 1

\* C34: a malformed record is skipped: it changes no score, triggers no
\* notification and does not end the loop, and the records after it in the
\* batch are still processed: the well-formed ones are scored.
C34_MalformedSkipped ==
    [][ /\ NextRecordIs("malformed") =>
              /\ ipScores' = ipScores /\ notified' = notified
              /\ reader'.pc = "records"
              /\ reader'.fetch.records = Tail(reader.fetch.records)
        /\ (NextRecordIs("event") /\ ~riskPanic') =>
              /\ lastEvent'.valid /\ lastEvent'.ip = Head(reader.fetch.records).ip
              /\ ipScores'[lastEvent'.ip] = NewRiskScore(lastEvent'.ret, now)
              /\ lastEvent'.ret >= 1
              /\ reader'.fetch.records = Tail(reader.fetch.records) ]_vars

\* The first record of a batch of two was malformed and has been skipped: no
\* actor has a score, and the event after it is the callback's next record.
C34_Witness ==
    /\ reader.pc = "records" /\ reader.fetch.size = 2
    /\ Len(reader.fetch.records) = 1 /\ Head(reader.fetch.records).kind = "event"
    /\ nevents = 1 /\ \A a \in Actors : ~ipScores[a].exists

\* C35: event emission never blocks the request path: a Publish call that
\* has reached Produce can return whatever the state of the buffer; with the
\* buffer full the event is dropped.
C35_PublishNeverBlocks == producer.pc = "produce" => ENABLED Produce

\* Every event handed to Publish is dropped at json.Marshal, buffered,
\* acknowledged, or still in the call: Publish itself drops nothing else.
PublishDropsOnlyUnmarshalled ==
    ncalls = producer.dropped + producer.buffered + producer.acked
             + (IF producer.pc = "produce" THEN 1 ELSE 0)

\* Publish is held in Produce by a full buffer.
PublishBlocked == producer.pc = "produce" /\ producer.buffered = MaxBuffered

\* The buckets the store's key map holds.
StoredBuckets == {k \in DOMAIN bucketPerIp : bucketPerIp[k].exists}

\* C36: background refill tasks do not leak: at every moment the number of
\* running refill tasks is at most the number of buckets held in the store's
\* key map.
C36_NoRefillerLeak == refillers <= Cardinality(StoredBuckets)

\* Every call starts a refill task and none stops.
RefillerPerCall == refillers = ncalls

\* The first call for each key leaves one running task per stored bucket.
FirstCallsLeakNothing ==
    ncalls = Cardinality(StoredBuckets) => refillers = Cardinality(StoredBuckets)

\* The five values of a Config that go to the store.
StoreFields == {"Window", "Limit", "Capacity", "TokensPerInterval", "RefillRate"}

\* The Config the claim names for the last request: its endpoint's policy
\* when the policies hold that exact key, the base Config otherwise.
NamedConfig == IF response.endpoint \in DOMAIN policies THEN policies[response.endpoint] ELSE config

\* C37: an endpoint override replaces the base wholesale: when a policy
\* exists for the request's exact key, all five values handed to the store
\* come from that policy, its zero fields included; otherwise all five come
\* from the base Config.
C37_OverrideReplacesBase ==
    response.status # 0 => \A f \in StoreFields : response.base[f] = NamedConfig[f]

\* A request to the endpoint with a policy reached both store calls, and the
\* policy's zero TokensPerInterval went to the store over the base's 1.
C37_Witness ==
    /\ response.status # 0
    /\ response.endpoint \in DOMAIN policies
    /\ response.bucket # "none"
    /\ config.TokensPerInterval = 1
    /\ response.base.TokensPerInterval = 0

\* What the store keeps of the call: the bucket a request creates in the
\* MemoryStore carries the named Config's three bucket values.
FirstBucketFromNamedConfig ==
    [][\A ip \in Keys :
         (store = "memory" /\ ~bucketPerIp[ip].exists /\ bucketPerIp'[ip].exists) =>
             /\ bucketPerIp'[ip].capacity = NamedConfig'.Capacity
             /\ bucketPerIp'[ip].tokensPerInterval = NamedConfig'.TokensPerInterval
             /\ bucketPerIp'[ip].refillRate = NamedConfig'.RefillRate]_vars

\* A request to an endpoint without a policy, under a base Config.
BaseConfigUsed ==
    /\ response.status # 0
    /\ response.endpoint \notin DOMAIN policies
    /\ policies # <<>>
    /\ response.bucket # "none"

\* This step scores an event of the actor whose event was scored last, less
\* than decayRate after that one.
NextEventWithinDecayRate ==
    /\ decayRate > 0
    /\ lastEvent.valid /\ lastEvent'.valid
    /\ lastEvent' # lastEvent
    /\ lastEvent'.ip = lastEvent.ip
    /\ lastEvent'.at - lastEvent.at < decayRate

\* C38: processEvent sets lastUpdated to now on every event, so an actor
\* whose consecutive events are each less than decayRate apart is never
\* decayed: its score rises by exactly 1 with each event, however much time
\* passes in total.
C38_SteadyActorNeverDecays ==
    [][NextEventWithinDecayRate =>
          /\ lastEvent'.ret = lastEvent.ret + 1
          /\ ipScores'[lastEvent'.ip].score = lastEvent'.ret
          /\ ipScores'[lastEvent'.ip].lastUpdated = now]_vars

\* decayRate is two ticks; ip1's score was read as 1 at time 0, and its
\* fourth event, at time 3, returned 4: three ticks in all and no deduction.
C38_Witness ==
    /\ decayRate = 2
    /\ lastRead.valid /\ lastRead.ip = "ip1" /\ lastRead.at = 0 /\ lastRead.ret = 1
    /\ lastEvent.valid /\ lastEvent.ip = "ip1" /\ lastEvent.at = 3 /\ lastEvent.ret = 4
    /\ nevents = 4
    /\ ~decayed["ip1"]

\* The same actor left alone for the same three ticks is decayed.
IdleActorDecays ==
    /\ decayRate = 2
    /\ ipScores["ip1"].exists /\ ipScores["ip1"].lastUpdated = 0 /\ ipScores["ip1"].score = 1
    /\ lastRead.valid /\ lastRead.ip = "ip1" /\ lastRead.at = 3 /\ lastRead.ret = 0

\* How many entries of a window's log carry the time t.
EntriesAt(log, t) == Len(SelectSeq(log, LAMBDA s : s = t))

\* The entries the store the middleware uses holds for ip at time t.
WindowEntriesAt(windows, sets, ip, t) ==
    IF store = "memory" THEN EntriesAt(windows[ip].logs, t)
    ELSE EntriesAt(sets[ip].members, t)

\* C39: the middleware consults the sliding window before the token bucket
\* and does not undo it: a request the window admitted and the bucket denied
\* is rejected and stays counted in the window, and a request the window
\* denied leaves the bucket as it was.
C39_WindowFirstNotUndone ==
    [][ncalls' = ncalls + 1 =>
          /\ (response'.window = "admitted" /\ response'.windowOutcome = "ok"
                  /\ response'.bucket = "denied") =>
                 /\ response'.status = 429
                 /\ WindowEntriesAt(slidingWindowPerIP', zsets', response'.ip, now)
                      = WindowEntriesAt(slidingWindowPerIP, zsets, response'.ip, now) + 1
          /\ response'.window = "denied" =>
                 /\ response'.status = 429
                 /\ response'.bucket = "none"
                 /\ bucketPerIp' = bucketPerIp
                 /\ hashes' = hashes]_vars

\* A request the window admitted and the bucket denied: rejected, and its
\* entry is in the window.
C39_Witness ==
    /\ response.status = 429
    /\ response.window = "admitted" /\ response.windowOutcome = "ok"
    /\ response.bucket = "denied"
    /\ response.at = now
    /\ WindowEntriesAt(slidingWindowPerIP, zsets, response.ip, now) > 0

\* A request the window denied while the MemoryStore bucket of its ip holds a token.
WindowDeniedWithTokenLeft ==
    /\ response.status = 429
    /\ response.window = "denied"
    /\ store = "memory"
    /\ bucketPerIp[response.ip].exists /\ bucketPerIp[response.ip].tokens > 0

\* The same against Redis.
WindowDeniedWithRedisTokenLeft ==
    /\ response.status = 429
    /\ response.window = "denied"
    /\ store = "redis"
    /\ hashes[response.ip] # NoHash

\* This step is the next request of the actor whose last request was denied
\* for its score, less than decayRate after that one.
DeniedActorSendsAgain ==
    /\ ncalls' = ncalls + 1
    /\ response.status = 403
    /\ response'.ip = response.ip
    /\ now - response.at < decayRate

\* The event of the last request was consumed at the time of that request,
\* and the topic is empty.
ConsumedAtOnce ==
    /\ producer.sent = <<>>
    /\ lastEvent.valid /\ lastEvent.ip = response.ip /\ lastEvent.at = response.at

\* Every consumed event is scored, whatever its Action.
EveryActionScored ==
    nevents' = nevents + 1 =>
        /\ lastEvent'.action \in Actions
        /\ lastEvent'.ret >= 1
        /\ ipScores'[lastEvent'.ip] = NewRiskScore(lastEvent'.ret, now)

AdmittedWhileEventWaits ==
    /\ response.status = 200
    /\ Len(producer.sent) = 2
    /\ producer.sent[1].action = "DENIED_RISK"
    /\ response.at - lastEvent.at <= 1
    /\ decayRate = 2

============================================================================
